---- MODULE Spec2Model ----
(***************************************************************************)
(* MAALogAnalyzer: the line parser of LogParser (parseFile, parseLine,      *)
(* parseMessageAndParams, parseValue, parseEventNotification), its         *)
(* task/node tree builder (getTasks, getTaskNodes), the StringPool and the *)
(* text search engine of TextSearchView (performSearch,                    *)
(* performNormalSearch, performStreamSearch, findMatchInLine,              *)
(* clearContent).                                                          *)
(***************************************************************************)
EXTENDS Integers, Sequences, FiniteSets, TLC

\* ------------------------------------------------------------------------
\* Bounds of the model
\* ------------------------------------------------------------------------

\* longest event stream held in LogParser.events
MaxEvents == 4

\* longest file of letters and newlines, in bytes
MaxLen == 5

\* longest file of arbitrary bytes
MaxBytes == 3

\* longest event stream of the nested-recognition specification
MaxNested == 5

\* most lines of a parsed content
MaxLines == 2

\* most pieces of text after the bracketed fields of a single line
MaxPieces == 4

\* most calls of loadContextLines in flight at once
MaxLoads == 2

\* the lines shown after the target line in the model: the 50 of the source
\* scaled down to its files
AfterScale == 1

\* the result cap of the model: the 500 of the source scaled down to its files
CapScale == 2

\* const maxResults = 500
maxResults == CapScale

\* ------------------------------------------------------------------------
\* State
\* ------------------------------------------------------------------------

VARIABLES
    events,         \* LogParser.events: the EventNotification stream of the parsed file
    tasks,          \* App.vue tasks.value: the TaskInfo[] returned by parser.getTasks()
    logLines,       \* LogParser.lines: the LogLine records of the parsed file
    parsedContent,  \* history: the arguments of the calls of parseFile, in order
    selected,       \* the contents the user is about to load, in order
    pool,           \* StringPool.pool: a Map from string to string
    returned,       \* history: the value returned by the latest call on the pool
    interned,       \* history: the strings passed to intern since the latest clear()
    fileName,       \* TextSearchView: name of the loaded file, "" when none
    fileContent,    \* the decoded text of a small file, "" otherwise
    fileHandle,     \* the File of a large file (its bytes), null otherwise
    isLargeFile,
    fileSizeInMB,   \* kept as file.size, the numerator of file.size / 1024 / 1024
    totalLines,
    isLoadingFile,
    searchText,
    caseSensitive,
    useRegex,
    abortSearch,
    isSearching,
    searchResults,
    totalMatches,
    searchHistory,
    pc,             \* where the search in flight is suspended: idle, timer, await
    frame,          \* the locals of the performStreamSearch in flight
    upload,         \* the handleFileUpload in flight: its file, null when none
    reader,         \* the reader of the latest performStreamSearch: none, locked,
                    \* released
    alerted,        \* the alert() shown since the latest call of performSearch or
                    \* handleFileUpload, null when none
    tested,         \* history: the (lineNumber, line) pairs given to findMatchInLine
    observed,       \* history: results.length when the scan saw abortSearch set
                    \* (seen) and the number of results it then stored (stored)
    engine,         \* history: the engine run by the latest performSearch since the
                    \* latest file was chosen: none, normal, stream
    started,        \* history: searchResults and totalMatches when the latest
                    \* search started
    loaded,         \* history: the file of the latest handleFileUpload that ran to
                    \* its end with no clearContent since it began, null otherwise
    selectedLine,   \* the line of the latest jumpToLine, null when none
    contextLines,   \* the lines shown around the selected line of a large file
    contextStartLine,
    loads,          \* the locals of the calls of loadContextLines in flight
    shown,          \* history: the locals of the loadContextLines that assigned
                    \* contextLines last, null after clearContent
    counting        \* the locals of a countLinesInFile, and its result

parserVars == <<events, tasks>>
lineVars == <<logLines, parsedContent, selected>>
poolVars == <<pool, returned, interned>>
fileVars == <<fileName, fileContent, fileHandle, isLargeFile, fileSizeInMB, totalLines>>
loadVars == <<isLoadingFile, upload, loaded>>
optionVars == <<caseSensitive, useRegex>>
ctxVars == <<selectedLine, contextLines, contextStartLine, loads, shown, counting>>
searchVars == <<fileVars, loadVars, optionVars, ctxVars, searchText, abortSearch, isSearching,
                searchResults, totalMatches, searchHistory, pc, frame, reader,
                alerted, tested, observed, engine, started>>
vars == <<parserVars, lineVars, poolVars, searchVars>>

\* ------------------------------------------------------------------------
\* Values
\* ------------------------------------------------------------------------

\* F applied to the value v: v is computed once and named by F's parameter
With(v, F(_)) == F(v)

\* an optional field that is undefined / one that holds v
Undefined == <<>>
Null == <<>>
Some(v) == <<v>>

\* task ids carried by events; 0 is the id that JavaScript treats as falsy
TaskIds == {1, 2}
StartIds == {0} \cup TaskIds

\* `if (taskId)`: truthiness of a numeric task id
Truthy(id) == id # 0

\* a || b on strings: the empty string is falsy
OrElse(a, b) == IF a # "" THEN a ELSE b

\* an EventNotification. message is the event name; the details payload is
\* flattened: task_id, name, node_details.name ("" when node_details is absent),
\* reco_id / node_id and the NextList list (absent here). timestamp is the
\* position of the line.
Event(msg, id, ts, ndName) ==
    [message |-> msg, task_id |-> id, timestamp |-> ts, name |-> "P",
     nd_name |-> ndName, reco_id |-> ts, list |-> Undefined]

\* an item of details.list: each of its fields is present or absent
Item(name, anchor, jump_back) ==
    [name |-> name, anchor |-> anchor, jump_back |-> jump_back]

\* a NextList event: an EventNotification whose details hold list
NextListEvent(msg, id, ts, list) ==
    [Event(msg, id, ts, "") EXCEPT !.list = list]

IsTaskStarting(e) == e.message = "Tasker.Task.Starting"
IsTaskEnd(e) == e.message \in {"Tasker.Task.Succeeded", "Tasker.Task.Failed"}
IsNextList(e) == e.message \in {"Node.NextList.Starting", "Node.NextList.Succeeded"}
IsRecognitionNode(e) ==
    e.message \in {"Node.RecognitionNode.Succeeded", "Node.RecognitionNode.Failed"}
IsRecognition(e) ==
    e.message \in {"Node.Recognition.Succeeded", "Node.Recognition.Failed"}
IsPipelineNode(e) ==
    e.message \in {"Node.PipelineNode.Succeeded", "Node.PipelineNode.Failed"}

\* ------------------------------------------------------------------------
\* LogParser.getTaskNodes
\* ------------------------------------------------------------------------

\* the loop of lines 306-316 from index i on (1-based; 0 = -1 of the source):
\* taskStartIndex follows every Task.Starting of the task, the first terminal
\* event of the task sets taskEndIndex and breaks.
RECURSIVE FindTaskWindow(_, _, _, _)
FindTaskWindow(evs, taskId, i, start) ==
    IF i > Len(evs) THEN [taskStartIndex |-> start, taskEndIndex |-> 0]
    ELSE LET e == evs[i]
             s == IF IsTaskStarting(e) /\ e.task_id = taskId THEN i ELSE start
         IN  IF IsTaskEnd(e) /\ e.task_id = taskId
             THEN [taskStartIndex |-> s, taskEndIndex |-> i]
             ELSE FindTaskWindow(evs, taskId, i + 1, s)

\* details.list || []
ListOf(e) == IF e.list = Undefined THEN <<>> ELSE e.list

\* a NextList event of any task replaces currentNextList
StepNextListAnyTask(st, e, taskId) ==
    IF IsNextList(e)
    THEN [st EXCEPT !.currentNextList = ListOf(e)]
    ELSE st

\* lines 341-352: a NextList event of the task replaces currentNextList, in
\* the Succeeded branch and in the Starting branch alike
StepNextList(st, e, taskId) ==
    IF IsNextList(e) /\ e.task_id = taskId
    THEN IF e.message = "Node.NextList.Succeeded"
         THEN [st EXCEPT !.currentNextList = ListOf(e)]
         ELSE [st EXCEPT !.currentNextList = ListOf(e)]
    ELSE st

\* lines 409-413: name: item.name || '', anchor: item.anchor || false,
\* jump_back: item.jump_back || false
NextItem(item) ==
    [name |-> IF item.name = Undefined THEN "" ELSE OrElse(item.name[1], ""),
     anchor |-> IF item.anchor = Undefined THEN FALSE ELSE item.anchor[1],
     jump_back |-> IF item.jump_back = Undefined THEN FALSE ELSE item.jump_back[1]]

\* nextList.map(...) over currentNextList.slice()
NextListOf(list) == [x \in 1..Len(list) |-> NextItem(list[x])]

\* lines 354-364: every RecognitionNode event is buffered, whatever its task_id
StepRecognitionNode(st, e, taskId) ==
    IF IsRecognitionNode(e)
    THEN [st EXCEPT !.nestedNodes = Append(@,
            [reco_id |-> e.reco_id, name |-> e.name, timestamp |-> e.timestamp,
             status |-> IF e.message = "Node.RecognitionNode.Succeeded"
                        THEN "success" ELSE "failed"])]
    ELSE st

\* a Recognition event of any task becomes an attempt
StepRecognitionAnyTask(st, e, taskId) ==
    IF IsRecognition(e)
    THEN [st EXCEPT
            !.recognitionAttempts = Append(@,
               [reco_id |-> e.reco_id, name |-> e.name, timestamp |-> e.timestamp,
                status |-> IF e.message = "Node.Recognition.Succeeded"
                           THEN "success" ELSE "failed",
                nested_nodes |-> st.nestedNodes]),
            !.nestedNodes = <<>>]
    ELSE st

\* a Recognition event of another task that leaves the buffer of nested nodes
StepRecognitionKeepNested(st, e, taskId) ==
    IF IsRecognition(e) /\ e.task_id = taskId
    THEN [st EXCEPT
            !.recognitionAttempts = Append(@,
               [reco_id |-> e.reco_id, name |-> e.name, timestamp |-> e.timestamp,
                status |-> IF e.message = "Node.Recognition.Succeeded"
                           THEN "success" ELSE "failed",
                nested_nodes |-> st.nestedNodes]),
            !.nestedNodes = <<>>]
    ELSE st

\* lines 366-385: a Recognition event of the task becomes an attempt that takes
\* the buffered nested nodes; one of another task only clears that buffer
StepRecognition(st, e, taskId) ==
    IF IsRecognition(e)
    THEN IF e.task_id = taskId
         THEN [st EXCEPT
                 !.recognitionAttempts = Append(@,
                    [reco_id |-> e.reco_id, name |-> e.name,
                     timestamp |-> e.timestamp,
                     status |-> IF e.message = "Node.Recognition.Succeeded"
                                THEN "success" ELSE "failed",
                     nested_nodes |-> st.nestedNodes]),
                 !.nestedNodes = <<>>]
         ELSE [st EXCEPT !.nestedNodes = <<>>]
    ELSE st

\* a PipelineNode event that closes a node and keeps the attempts
StepPipelineNodeKeep(st, e, taskId) ==
    IF IsPipelineNode(e) /\ e.task_id = taskId
    THEN [st EXCEPT
            !.nodes = Append(@,
               [node_id |-> e.reco_id,
                name |-> OrElse(e.nd_name, OrElse(e.name, "")),
                timestamp |-> e.timestamp,
                status |-> IF e.message = "Node.PipelineNode.Succeeded"
                           THEN "success" ELSE "failed",
                task_id |-> taskId,
                next_list |-> NextListOf(st.currentNextList),
                recognition_attempts |-> st.recognitionAttempts])]
    ELSE st

\* lines 387-421: a PipelineNode event of the task closes a node, which takes
\* copies of currentNextList and of the attempts; the attempts are then emptied
StepPipelineNode(st, e, taskId) ==
    IF IsPipelineNode(e) /\ e.task_id = taskId
    THEN [st EXCEPT
            !.nodes = Append(@,
               [node_id |-> e.reco_id,
                name |-> OrElse(e.nd_name, OrElse(e.name, "")),
                timestamp |-> e.timestamp,
                status |-> IF e.message = "Node.PipelineNode.Succeeded"
                           THEN "success" ELSE "failed",
                task_id |-> taskId,
                next_list |-> NextListOf(st.currentNextList),
                recognition_attempts |-> st.recognitionAttempts]),
            !.recognitionAttempts = <<>>]
    ELSE st

\* the body of the loop of lines 338-422 for one event
StepEvent(st, e, taskId) ==
    StepPipelineNode(
        StepRecognition(
            StepRecognitionNode(
                StepNextList(st, e, taskId), e, taskId), e, taskId), e, taskId)

RECURSIVE ScanTaskEvents(_, _, _)
ScanTaskEvents(taskEvents, taskId, st) ==
    IF taskEvents = <<>> THEN st
    ELSE ScanTaskEvents(Tail(taskEvents), taskId, StepEvent(st, Head(taskEvents), taskId))

getTaskNodes(evs, taskId) ==
    LET w == FindTaskWindow(evs, taskId, 1, 0)
        taskEndIndex == IF w.taskEndIndex = 0 THEN Len(evs) ELSE w.taskEndIndex
        taskEvents == SubSeq(evs, w.taskStartIndex, taskEndIndex)
    IN  IF w.taskStartIndex = 0 THEN <<>>
        ELSE ScanTaskEvents(taskEvents, taskId,
                [nodes |-> <<>>, recognitionAttempts |-> <<>>,
                 nestedNodes |-> <<>>, currentNextList |-> <<>>]).nodes

\* ------------------------------------------------------------------------
\* LogParser.getTasks
\* ------------------------------------------------------------------------

\* index of key in the Map (a sequence in insertion order), 0 when absent
MapIndex(tasksMap, key) ==
    IF \E i \in 1..Len(tasksMap) : tasksMap[i].task_id = key
    THEN CHOOSE i \in 1..Len(tasksMap) : tasksMap[i].task_id = key
    ELSE 0

\* a Map.set that appends also when the key exists
MapSetAppend(tasksMap, key, val) == Append(tasksMap, val)

\* Map.set: a new key is appended, an existing key keeps its place
MapSet(tasksMap, key, val) ==
    IF MapIndex(tasksMap, key) = 0 THEN Append(tasksMap, val)
    ELSE [tasksMap EXCEPT ![MapIndex(tasksMap, key)] = val]

\* lines 255-269
OnTaskStarting(tasksMap, e) ==
    IF Truthy(e.task_id)
    THEN MapSet(tasksMap, e.task_id,
            [task_id |-> e.task_id, start_time |-> e.timestamp, status |-> "running",
             end_time |-> Undefined, duration |-> Undefined, nodes |-> <<>>,
             events |-> <<e.timestamp>>])
    ELSE tasksMap

\* a timestamp is the text between the first brackets of a line, never empty.
\* The positive number p is the well-formed timestamp of line p, whose instant
\* is p milliseconds; -p is a text at line p that Date cannot parse.
\* a JavaScript number: a count of milliseconds, or NaN
Number(n) == [nan |-> FALSE, ms |-> n]
NaN == [nan |-> TRUE, ms |-> 0]

\* new Date(timestamp).getTime()
getTime(ts) == IF ts > 0 THEN Number(ts) ELSE NaN

\* end - start on numbers: NaN when an operand is NaN
Minus(a, b) == IF a.nan \/ b.nan THEN NaN ELSE Number(a.ms - b.ms)

\* a terminal event that sets status, end time and duration only when the task
\* has not ended yet
OnTaskEndFirstWins(tasksMap, e) ==
    LET i == MapIndex(tasksMap, e.task_id)
    IN  IF Truthy(e.task_id) /\ i # 0
        THEN [tasksMap EXCEPT ![i] =
                IF @.end_time # Undefined THEN [@ EXCEPT !.events = Append(@, e.timestamp)]
                ELSE [@ EXCEPT !.status = IF e.message = "Tasker.Task.Succeeded"
                                          THEN "succeeded" ELSE "failed",
                               !.end_time = Some(e.timestamp),
                               !.events = Append(@, e.timestamp),
                               !.duration = Some(Minus(getTime(e.timestamp),
                                                       getTime(tasksMap[i].start_time)))]]
        ELSE tasksMap

\* lines 270-285; both timestamps are non-empty texts, so the duration is
\* always computed
OnTaskEnd(tasksMap, e) ==
    LET i == MapIndex(tasksMap, e.task_id)
    IN  IF Truthy(e.task_id) /\ i # 0
        THEN [tasksMap EXCEPT ![i] =
                [@ EXCEPT !.status = IF e.message = "Tasker.Task.Succeeded"
                                     THEN "succeeded" ELSE "failed",
                          !.end_time = Some(e.timestamp),
                          !.events = Append(@, e.timestamp),
                          !.duration = Some(Minus(getTime(e.timestamp),
                                                  getTime(tasksMap[i].start_time)))]]
        ELSE tasksMap

\* the loop of lines 252-286
RECURSIVE CollectTasks(_, _)
CollectTasks(evs, tasksMap) ==
    IF evs = <<>> THEN tasksMap
    ELSE LET e == Head(evs)
         IN  CollectTasks(Tail(evs),
                IF IsTaskStarting(e) THEN OnTaskStarting(tasksMap, e)
                ELSE IF IsTaskEnd(e) THEN OnTaskEnd(tasksMap, e)
                ELSE tasksMap)

getTasks(evs) ==
    LET tasksMap == CollectTasks(evs, <<>>)
    IN  [i \in 1..Len(tasksMap) |->
            [tasksMap[i] EXCEPT !.nodes = getTaskNodes(evs, tasksMap[i].task_id)]]

\* ------------------------------------------------------------------------
\* Text: strings are sequences of characters, files are sequences of bytes
\* ------------------------------------------------------------------------

NL == "\n"

\* the bytes of a file: an ASCII letter, the newline, and the two bytes of a
\* two-byte UTF-8 sequence (L the lead byte, T the continuation byte)
ByteAlphabet == {"a", NL, "L", "T"}

\* one byte through a UTF-8 decoder that holds a lead byte (pending) or nothing:
\* L T (C4 B0) is the character "U130" (capital I with dot above, one code
\* unit), a byte that cannot be decoded is the replacement character "fffd"
DecodeByte(pending, b) ==
    IF pending
    THEN IF b = "T" THEN [text |-> <<"U130">>, pending |-> FALSE]
         ELSE IF b = "L" THEN [text |-> <<"fffd">>, pending |-> TRUE]
         ELSE [text |-> <<"fffd", b>>, pending |-> FALSE]
    ELSE IF b = "L" THEN [text |-> <<>>, pending |-> TRUE]
         ELSE IF b = "T" THEN [text |-> <<"fffd">>, pending |-> FALSE]
         ELSE [text |-> <<b>>, pending |-> FALSE]

\* decoder.decode(value, { stream: true }): the text of the chunk; an incomplete
\* sequence at its end stays in the decoder
RECURSIVE decode(_, _)
decode(pending, value) ==
    IF value = <<>> THEN [text |-> <<>>, pending |-> pending]
    ELSE LET d == DecodeByte(pending, Head(value))
             r == decode(d.pending, Tail(value))
         IN  [text |-> d.text \o r.text, pending |-> r.pending]

\* file.text(): the whole file decoded; an incomplete sequence at its end is
\* replaced
text(bytes) ==
    LET r == decode(FALSE, bytes)
    IN  r.text \o (IF r.pending THEN <<"fffd">> ELSE <<>>)

\* String.prototype.split('\n')
RECURSIVE split(_)
split(str) ==
    IF \E i \in 1..Len(str) : str[i] = NL
    THEN LET i == CHOOSE i \in 1..Len(str) :
                    str[i] = NL /\ \A j \in 1..(i - 1) : str[j] # NL
         IN  <<SubSeq(str, 1, i - 1)>> \o split(SubSeq(str, i + 1, Len(str)))
    ELSE <<str>>

\* String.prototype.toLowerCase: U+0130 becomes the two code units i, U+0307
RECURSIVE toLowerCase(_)
toLowerCase(str) ==
    IF str = <<>> THEN <<>>
    ELSE (IF Head(str) = "A" THEN <<"a">>
          ELSE IF Head(str) = "U130" THEN <<"i", "U307">>
          ELSE <<Head(str)>>) \o toLowerCase(Tail(str))

\* String.prototype.indexOf: the first 0-based position of sub in str, or -1
indexOf(str, sub) ==
    LET at == {i \in 0..(Len(str) - Len(sub)) : SubSeq(str, i + 1, i + Len(sub)) = sub}
    IN  IF at = {} THEN -1 ELSE CHOOSE i \in at : \A j \in at : i <= j

\* new RegExp(source, flags): the patterns of the model are plain letters, which
\* match themselves, and "(", which does not compile
Compiles(source) == \A i \in 1..Len(source) : source[i] # "("
RegExp(source, cs) == [source |-> source, global |-> TRUE, ignoreCase |-> ~cs]

\* the case folding of the i flag: code unit by code unit, lengths are kept
Canonicalize(str) == [i \in 1..Len(str) |-> IF str[i] = "A" THEN "a" ELSE str[i]]

\* String.prototype.match(regexp): null when nothing matches; with the g flag the
\* array of the matched strings, which has no index property
match(str, re) ==
    LET hay == IF re.ignoreCase THEN Canonicalize(str) ELSE str
        needle == IF re.ignoreCase THEN Canonicalize(re.source) ELSE re.source
        i == indexOf(hay, needle)
    IN  IF i = -1 THEN Null
        ELSE Some([first |-> SubSeq(str, i + 1, i + Len(needle)),
                   index |-> IF re.global THEN Undefined ELSE Some(i)])

\* ------------------------------------------------------------------------
\* TextSearchView: findMatchInLine, performNormalSearch, performStreamSearch
\* ------------------------------------------------------------------------

\* the settings a scan reads from the component
Settings == [searchText |-> searchText, caseSensitive |-> caseSensitive,
             useRegex |-> useRegex]

\* lines 305-334
findMatchInLine(line, searchPattern, set) ==
    LET viaRegex == set.useRegex /\ searchPattern # Null
        matchResult == match(line, searchPattern[1])
        matchStart ==
            IF viaRegex
            THEN IF matchResult # Null /\ matchResult[1].index # Undefined
                 THEN matchResult[1].index[1] ELSE -1
            ELSE IF set.caseSensitive
                 THEN indexOf(line, set.searchText)
                 ELSE indexOf(toLowerCase(line), toLowerCase(set.searchText))
        matchEnd ==
            IF viaRegex THEN matchStart + Len(matchResult[1].first)
            ELSE matchStart + Len(set.searchText)
    IN  IF matchStart # -1 THEN Some([start |-> matchStart, end |-> matchEnd])
        ELSE Null

\* a result that carries the number of the line within its chunk's first line
SearchResultUnnumbered(lineNumber, line, m) ==
    [lineNumber |-> 1, line |-> line, matchStart |-> m.start,
     matchEnd |-> m.end, context |-> line]

\* lines 196-202 and 270-276: the SearchResult pushed for a matching line
SearchResult(lineNumber, line, m) ==
    [lineNumber |-> lineNumber, line |-> line, matchStart |-> m.start,
     matchEnd |-> m.end, context |-> line]

\* results and history after findMatchInLine was called on one line
TestLine(sc, lineNumber, line, searchPattern, set, keep) ==
    LET m == findMatchInLine(line, searchPattern, set)
    IN  [sc EXCEPT
            !.tested = Append(@, <<lineNumber, line>>),
            !.results = IF m # Null /\ keep
                        THEN Append(@, SearchResult(lineNumber, line, m[1]))
                        ELSE @]

\* lines 189-204: the loop of performNormalSearch from index on
RECURSIVE NormalLoop(_, _, _, _, _, _)
NormalLoop(lines, index, sc, searchPattern, set, abort) ==
    IF index > Len(lines) THEN sc
    ELSE IF abort \/ Len(sc.results) >= maxResults THEN sc
    ELSE NormalLoop(lines, index + 1,
            TestLine(sc, index, lines[index], searchPattern, set, TRUE),
            searchPattern, set, abort)

\* lines 173-207: the timer callback of performNormalSearch. stored tells
\* whether searchResults is assigned (it is not when the pattern does not compile)
performNormalSearch(content, set, abort) ==
    LET lines == split(content)
        start == [results |-> <<>>, tested |-> <<>>]
    IN  IF set.useRegex /\ ~Compiles(set.searchText)
        THEN [stored |-> FALSE, results |-> <<>>, tested |-> <<>>]
        ELSE LET sc == NormalLoop(lines, 1, start,
                          IF set.useRegex
                          THEN Some(RegExp(set.searchText, set.caseSensitive))
                          ELSE Null,
                          set, abort)
             IN  [stored |-> TRUE, results |-> sc.results, tested |-> sc.tested]

\* the locals of performStreamSearch (lines 221-226); bytes and pos are the
\* stream of the reader
NoFrame == [bytes |-> <<>>, pos |-> 0, pending |-> FALSE, buffer |-> <<>>,
            lineNumber |-> 0, results |-> <<>>, searchPattern |-> Null]

\* the for loop without the test of the cap
RECURSIVE ChunkLoopNoCap(_, _, _, _)
ChunkLoopNoCap(lines, sc, searchPattern, set) ==
    IF lines = <<>> THEN sc
    ELSE ChunkLoopNoCap(Tail(lines),
            TestLine([sc EXCEPT !.lineNumber = @ + 1], sc.lineNumber + 1,
                     Head(lines), searchPattern, set, TRUE),
            searchPattern, set)

\* lines 256-278: the for loop over the complete lines of a chunk; returned is
\* set when the cap makes the function return
RECURSIVE ChunkLoop(_, _, _, _)
ChunkLoop(lines, sc, searchPattern, set) ==
    IF lines = <<>> THEN sc
    ELSE LET n == sc.lineNumber + 1
         IN  IF Len(sc.results) >= maxResults
             THEN [sc EXCEPT !.lineNumber = n, !.returned = TRUE]
             ELSE ChunkLoop(Tail(lines),
                    TestLine([sc EXCEPT !.lineNumber = n], n, Head(lines),
                             searchPattern, set, TRUE),
                    searchPattern, set)

\* lines 281-294: the last line, which no newline ends
LastLine(sc, buffer, searchPattern, set) ==
    IF buffer # <<>>
    THEN TestLine([sc EXCEPT !.lineNumber = @ + 1], sc.lineNumber + 1, buffer,
                  searchPattern, set, Len(sc.results) < maxResults)
    ELSE sc

\* a chunk that is split without the piece kept back from the chunk before
CarryDropped(fr, value) ==
    LET d == decode(fr.pending, value)
        lines == split(d.text)
    IN  [lines |-> SubSeq(lines, 1, Len(lines) - 1),
         buffer |-> lines[Len(lines)],
         pending |-> d.pending]

\* lines 249-253: the chunk is decoded onto the buffer, which is split; the last
\* piece is kept back
Carry(fr, value) ==
    LET d == decode(fr.pending, value)
        lines == split(fr.buffer \o d.text)
    IN  [lines |-> SubSeq(lines, 1, Len(lines) - 1),
         buffer |-> lines[Len(lines)],
         pending |-> d.pending]

\* ------------------------------------------------------------------------
\* Operations: the file that is parsed holds one more event line, then
\* parser.getTasks() refreshes tasks
\* ------------------------------------------------------------------------

\* parseFile pushes the event of the next line; getTasks is recomputed
PushEventWithin(e, max) ==
    /\ Len(events) < max
    /\ events' = Append(events, e)
    /\ tasks' = getTasks(events')
    /\ UNCHANGED <<lineVars, poolVars, searchVars>>

PushEvent(e) == PushEventWithin(e, MaxEvents)

NextTs == Len(events) + 1

TaskMsgs == {"Tasker.Task.Succeeded", "Tasker.Task.Failed"}
PipelineMsgs == {"Node.PipelineNode.Succeeded", "Node.PipelineNode.Failed"}
RecognitionMsgs == {"Node.Recognition.Succeeded", "Node.Recognition.Failed"}
RecognitionNodeMsgs == {"Node.RecognitionNode.Succeeded", "Node.RecognitionNode.Failed"}
NextListMsgs == {"Node.NextList.Starting", "Node.NextList.Succeeded"}

PushTaskStarting(ids) ==
    \E id \in ids : PushEvent(Event("Tasker.Task.Starting", id, NextTs, ""))

PushTaskEnd(msgs) ==
    \E id \in TaskIds, m \in msgs : PushEvent(Event(m, id, NextTs, ""))

PushPipelineNode(msgs, nds) ==
    \E id \in TaskIds, m \in msgs, nd \in nds : PushEvent(Event(m, id, NextTs, nd))

\* task life cycle and node closing, every variant of the three events
TaskStarting == PushTaskStarting(StartIds)
TaskEnd == PushTaskEnd(TaskMsgs)
PipelineNode == PushPipelineNode(PipelineMsgs, {"", "A"})

\* recognition: the task and node events in one variant each
RecoTaskStarting == PushTaskStarting(TaskIds)
RecoTaskEnd == PushTaskEnd({"Tasker.Task.Succeeded"})
RecoPipelineNode == PushPipelineNode({"Node.PipelineNode.Succeeded"}, {""})

Recognition ==
    \E id \in TaskIds, m \in RecognitionMsgs : PushEvent(Event(m, id, NextTs, ""))

RecognitionNode ==
    \E id \in TaskIds, m \in RecognitionNodeMsgs : PushEvent(Event(m, id, NextTs, ""))

\* the lists carried by NextList events: one item with every field, and a
\* list whose first item has no name and no anchor
ListA == <<Item(Some("A"), Some(TRUE), Some(FALSE))>>
ListB == <<Item(Undefined, Undefined, Some(TRUE)), Item(Some("B"), Some(FALSE), Undefined)>>

NextListStarting ==
    \E id \in TaskIds, list \in {Undefined, ListA} :
        PushEvent(NextListEvent("Node.NextList.Starting", id, NextTs, list))

NextListSucceeded ==
    \E id \in TaskIds, list \in {ListA, ListB} :
        PushEvent(NextListEvent("Node.NextList.Succeeded", id, NextTs, list))

\* private lines: LogLine[] = [], private events: EventNotification[] = []
ParserConstructed ==
    /\ events = <<>> /\ tasks = <<>>
    /\ logLines = <<>> /\ parsedContent = <<>> /\ selected = <<>>

\* private pool = new Map<string, string>()
EmptyMap == [k \in {} |-> k]

PoolConstructed ==
    /\ pool = EmptyMap
    /\ returned = [op |-> "none"]
    /\ interned = {}

\* selectedLine = ref(null), contextLines = ref([]), contextStartLine = ref(0);
\* no loadContextLines and no countLinesInFile is running
ContextConstructed ==
    /\ selectedLine = Null /\ contextLines = <<>> /\ contextStartLine = 0
    /\ loads = <<>> /\ shown = Null /\ counting = Null

\* the state after construction: nothing parsed, no file loaded
SearchConstructed ==
    /\ fileName = "" /\ fileContent = <<>> /\ fileHandle = Null
    /\ isLargeFile = FALSE /\ fileSizeInMB = 0 /\ totalLines = 0
    /\ isLoadingFile = FALSE /\ upload = Null /\ loaded = Null
    /\ searchText = <<>> /\ caseSensitive = TRUE /\ useRegex = FALSE
    /\ abortSearch = FALSE /\ isSearching = FALSE
    /\ searchResults = <<>> /\ totalMatches = 0 /\ searchHistory = <<>>
    /\ pc = "idle" /\ frame = NoFrame /\ reader = "none" /\ alerted = Null
    /\ tested = <<>> /\ observed = Null /\ engine = "none"
    /\ started = [results |-> <<>>, total |-> 0]
    /\ ContextConstructed

Init ==
    /\ ParserConstructed
    /\ PoolConstructed
    /\ SearchConstructed

NextTasks == TaskStarting \/ TaskEnd \/ PipelineNode
SpecTasks == Init /\ [][NextTasks]_vars

\* task life cycle with timestamps that parse and timestamps that do not
Stamp(parses) == IF parses THEN NextTs ELSE 0 - NextTs

TimedTaskStarting ==
    \E id \in StartIds, parses \in BOOLEAN :
        PushEvent(Event("Tasker.Task.Starting", id, Stamp(parses), ""))

TimedTaskEnd ==
    \E id \in TaskIds, m \in TaskMsgs, parses \in BOOLEAN :
        PushEvent(Event(m, id, Stamp(parses), ""))

NextTimes == TimedTaskStarting \/ TimedTaskEnd
SpecTimes == Init /\ [][NextTimes]_vars

NextReco ==
    RecoTaskStarting \/ RecoTaskEnd \/ RecognitionNode \/ Recognition \/ RecoPipelineNode
SpecReco == Init /\ [][NextReco]_vars

\* next lists: task life cycle, node closing and the two NextList events
NextNextList ==
    RecoTaskStarting \/ RecoTaskEnd \/ RecoPipelineNode \/ NextListStarting
        \/ NextListSucceeded
SpecNextList == Init /\ [][NextNextList]_vars

\* nested recognition: streams of up to MaxNested events, one variant of each
\* event per task id; the RecognitionNode events carry the id of a task of
\* their own
NestedTaskStarting ==
    \E id \in TaskIds :
        PushEventWithin(Event("Tasker.Task.Starting", id, NextTs, ""), MaxNested)

NestedTaskEnd ==
    \E id \in TaskIds :
        PushEventWithin(Event("Tasker.Task.Succeeded", id, NextTs, ""), MaxNested)

NestedRecognitionNode ==
    PushEventWithin(Event("Node.RecognitionNode.Succeeded", 3, NextTs, ""), MaxNested)

NestedRecognition ==
    \E id \in TaskIds :
        PushEventWithin(Event("Node.Recognition.Succeeded", id, NextTs, ""), MaxNested)

NestedPipelineNode ==
    \E id \in TaskIds :
        PushEventWithin(Event("Node.PipelineNode.Succeeded", id, NextTs, ""), MaxNested)

NextNested ==
    NestedTaskStarting \/ NestedTaskEnd \/ NestedRecognitionNode \/ NestedRecognition
        \/ NestedPipelineNode
SpecNested == Init /\ [][NextNested]_vars

\* ------------------------------------------------------------------------
\* LogParser: text of a log line. A string is a sequence of units: a unit is
\* one character ("[", "]", "{", "}", "=", "|", ",", ":", the quotes, "-",
\* ".", a digit, the space, the carriage return) or a word, a run of other
\* characters that is kept whole ("msg", "Tasker.Task.Starting", ...).
\* ------------------------------------------------------------------------

SP == " "
CR == "\r"

\* what \s and trim() take as white space inside a line
IsSpace(c) == c \in {SP, CR}

\* what . of a regular expression does not match inside a line
IsLineTerminator(c) == c = CR

Digits == {"0", "1", "5"}
DigitValue == ("0" :> 0) @@ ("1" :> 1) @@ ("5" :> 5)

\* '!!!OnEventNotify!!!', held as two units so that texts that join to it exist
Marker == <<"!!!OnEvent", "Notify!!!">>

\* String.prototype.includes
includes(str, sub) == indexOf(str, sub) # -1

\* the white space at the start removed
RECURSIVE trimStart(_)
trimStart(str) ==
    IF str # <<>> /\ IsSpace(Head(str)) THEN trimStart(Tail(str)) ELSE str

\* the white space at the end removed
RECURSIVE trimEnd(_)
trimEnd(str) ==
    IF str # <<>> /\ IsSpace(str[Len(str)])
    THEN trimEnd(SubSeq(str, 1, Len(str) - 1)) ELSE str

\* a trim that leaves the white space at the start
trimEndOnly(str) == trimEnd(str)

\* String.prototype.trim
trim(str) == trimEnd(trimStart(str))

\* String.prototype.replace(pattern, '') with a string pattern: the first
\* occurrence of pattern is removed
replaceFirst(str, pattern) ==
    LET i == indexOf(str, pattern)
    IN  IF i = -1 THEN str
        ELSE SubSeq(str, 1, i) \o SubSeq(str, i + Len(pattern) + 1, Len(str))

\* parseInt of a run of digits
RECURSIVE parseDigits(_)
parseDigits(ds) ==
    IF ds = <<>> THEN 0
    ELSE 10 * parseDigits(SubSeq(ds, 1, Len(ds) - 1)) + DigitValue[ds[Len(ds)]]

\* the end of the run of digits that starts at position i (the position after it)
RECURSIVE DigitsEnd(_, _)
DigitsEnd(str, i) ==
    IF i <= Len(str) /\ str[i] \in Digits THEN DigitsEnd(str, i + 1) ELSE i

\* the position after the white space that starts at position i
RECURSIVE SpaceEnd(_, _)
SpaceEnd(str, i) ==
    IF i <= Len(str) /\ IsSpace(str[i]) THEN SpaceEnd(str, i + 1) ELSE i

\* ------------------------------------------------------------------------
\* LogParser.parseLine: the regular expression of line 48
\* ------------------------------------------------------------------------

\* \[([^\]]+)\] at position i: the text up to the first "]" after the "[",
\* which must not be empty
Bracketed(line, i) ==
    IF i <= Len(line) /\ line[i] = "[" /\ \E j \in (i + 1)..Len(line) : line[j] = "]"
    THEN LET j == CHOOSE j \in (i + 1)..Len(line) :
                    line[j] = "]" /\ \A x \in (i + 1)..(j - 1) : line[x] # "]"
         IN  IF j = i + 1 THEN [ok |-> FALSE, text |-> <<>>, next |-> i]
             ELSE [ok |-> TRUE, text |-> SubSeq(line, i + 1, j - 1), next |-> j + 1]
    ELSE [ok |-> FALSE, text |-> <<>>, next |-> i]

\* up to n optional groups (?:\[([^\]]+)\])? from position i, taken greedily:
\* giving one back never lets the rest of the expression match
RECURSIVE OptionalGroups(_, _, _)
OptionalGroups(line, i, n) ==
    LET g == Bracketed(line, i)
    IN  IF n = 0 \/ ~g.ok THEN [parts |-> <<>>, next |-> i]
        ELSE LET r == OptionalGroups(line, g.next, n - 1)
             IN  [parts |-> <<g.text>> \o r.parts, next |-> r.next]

\* line.match(regex): null, or the groups timestamp, level, processId, threadId,
\* the optional parts that took part, and rest
matchLine(line) ==
    With(Bracketed(line, 1), LAMBDA g1 :
    With(Bracketed(line, g1.next), LAMBDA g2 :
    With(Bracketed(line, g2.next), LAMBDA g3 :
    With(Bracketed(line, g3.next), LAMBDA g4 :
    With(OptionalGroups(line, g4.next, 3), LAMBDA opt :
    With(SubSeq(line, SpaceEnd(line, opt.next), Len(line)), LAMBDA rest :
        IF g1.ok /\ g2.ok /\ g3.ok /\ g4.ok
           /\ \A x \in 1..Len(rest) : ~IsLineTerminator(rest[x])
        THEN Some([timestamp |-> g1.text, level |-> g2.text, processId |-> g3.text,
                   threadId |-> g4.text, parts |-> opt.parts, rest |-> rest])
        ELSE Null))))))

\* ------------------------------------------------------------------------
\* JSON.parse, on the units of the model: objects, arrays, strings, numbers
\* without exponent, true, false, null, white space between the tokens
\* ------------------------------------------------------------------------

\* the values of params: a number (sign, integer part, decimal digits), a
\* boolean, a string, null, an array, an object (a function from its keys)
Num(neg, int, frac) == [neg |-> neg /\ (int # 0 \/ frac # <<>>), int |-> int, frac |-> frac]
Bool(b) == [bool |-> b]
Str(s) == [str |-> s]
JsonNull == [null |-> TRUE]
Arr(items) == [arr |-> items]
Obj(members) == [obj |-> members]

IsObj(v) == DOMAIN v = {"obj"}
IsStr(v) == DOMAIN v = {"str"}
IsNum(v) == DOMAIN v = {"neg", "int", "frac"}
IsBool(v) == DOMAIN v = {"bool"}

\* decimal digits without the zeros at their end: 1.50 is 1.5
RECURSIVE Significant(_)
Significant(ds) ==
    IF ds # <<>> /\ ds[Len(ds)] = "0" THEN Significant(SubSeq(ds, 1, Len(ds) - 1))
    ELSE ds

Failed == [ok |-> FALSE, val |-> JsonNull, next |-> 0]
Parsed(v, next) == [ok |-> TRUE, val |-> v, next |-> next]

\* a JSON string at position i: a quote, units that are no quote and no control
\* character, a quote
JString(s, i) ==
    IF i <= Len(s) /\ s[i] = "\"" /\ \E j \in (i + 1)..Len(s) : s[j] = "\""
    THEN LET j == CHOOSE j \in (i + 1)..Len(s) :
                    s[j] = "\"" /\ \A x \in (i + 1)..(j - 1) : s[x] # "\""
         IN  IF \E x \in (i + 1)..(j - 1) : s[x] = CR THEN Failed
             ELSE Parsed(Str(SubSeq(s, i + 1, j - 1)), j + 1)
    ELSE Failed

\* a JSON number at position i: -? (0 | [1-9][0-9]*) (\.[0-9]+)?
JNumber(s, i) ==
    With(i <= Len(s) /\ s[i] = "-", LAMBDA neg :
    With(IF neg THEN i + 1 ELSE i, LAMBDA a :
    With(DigitsEnd(s, a), LAMBDA b :
    With(b <= Len(s) /\ s[b] = ".", LAMBDA hasFrac :
    With(IF hasFrac THEN DigitsEnd(s, b + 1) ELSE b, LAMBDA c :
        IF b = a \/ (b > a + 1 /\ s[a] = "0") \/ (hasFrac /\ c = b + 1) THEN Failed
        ELSE Parsed(Num(neg, parseDigits(SubSeq(s, a, b - 1)),
                        IF hasFrac THEN Significant(SubSeq(s, b + 1, c - 1)) ELSE <<>>),
                    c))))))

RECURSIVE JValue(_, _)
RECURSIVE JElements(_, _, _)
RECURSIVE JMembers(_, _, _)

\* the elements of an array from position i on, items being those read so far
JElements(s, i, items) ==
    With(JValue(s, i), LAMBDA v :
    With(IF v.ok THEN SpaceEnd(s, v.next) ELSE 0, LAMBDA k :
        IF ~v.ok \/ k > Len(s) THEN Failed
        ELSE IF s[k] = "," THEN JElements(s, k + 1, Append(items, v.val))
        ELSE IF s[k] = "]" THEN Parsed(Arr(Append(items, v.val)), k + 1)
        ELSE Failed))

\* the members of an object from position i on; a repeated key keeps the last
\* value
JMembers(s, i, members) ==
    With(JString(s, SpaceEnd(s, i)), LAMBDA key :
    With(IF key.ok THEN SpaceEnd(s, key.next) ELSE 0, LAMBDA c :
    With(IF key.ok /\ c <= Len(s) /\ s[c] = ":" THEN JValue(s, c + 1) ELSE Failed,
         LAMBDA v :
    With(IF v.ok THEN SpaceEnd(s, v.next) ELSE 0, LAMBDA k :
    With([x \in DOMAIN members \cup {key.val.str} |->
                IF x = key.val.str THEN v.val ELSE members[x]], LAMBDA put :
        IF ~v.ok \/ k > Len(s) THEN Failed
        ELSE IF s[k] = "," THEN JMembers(s, k + 1, put)
        ELSE IF s[k] = "}" THEN Parsed(Obj(put), k + 1)
        ELSE Failed)))))

\* a JSON value at position i, after white space
JValue(s, i) ==
    With(SpaceEnd(s, i), LAMBDA a :
        IF a > Len(s) THEN Failed
        ELSE IF s[a] = "{"
             THEN With(SpaceEnd(s, a + 1), LAMBDA b :
                      IF b <= Len(s) /\ s[b] = "}" THEN Parsed(Obj(<<>>), b + 1)
                      ELSE JMembers(s, a + 1, <<>>))
        ELSE IF s[a] = "["
             THEN With(SpaceEnd(s, a + 1), LAMBDA b :
                      IF b <= Len(s) /\ s[b] = "]" THEN Parsed(Arr(<<>>), b + 1)
                      ELSE JElements(s, a + 1, <<>>))
        ELSE IF s[a] = "\"" THEN JString(s, a)
        ELSE IF s[a] = "-" \/ s[a] \in Digits THEN JNumber(s, a)
        ELSE IF s[a] = "true" THEN Parsed(Bool(TRUE), a + 1)
        ELSE IF s[a] = "false" THEN Parsed(Bool(FALSE), a + 1)
        ELSE IF s[a] = "null" THEN Parsed(JsonNull, a + 1)
        ELSE Failed)

\* JSON.parse(value): the value, or the SyntaxError that parseValue catches
JSONparse(s) ==
    With(JValue(s, 1), LAMBDA v :
        IF v.ok /\ SpaceEnd(s, v.next) = Len(s) + 1 THEN v ELSE Failed)

\* ------------------------------------------------------------------------
\* LogParser.parseValue, parseMessageAndParams, parseLine,
\* parseEventNotification, parseFile
\* ------------------------------------------------------------------------

\* /^-?\d+$/
IsInteger(value) ==
    LET a == IF value # <<>> /\ value[1] = "-" THEN 2 ELSE 1
    IN  a <= Len(value) /\ DigitsEnd(value, a) = Len(value) + 1

\* /^-?\d+\.\d+$/
IsDecimal(value) ==
    LET a == IF value # <<>> /\ value[1] = "-" THEN 2 ELSE 1
        b == DigitsEnd(value, a)
    IN  /\ b > a /\ b < Len(value) /\ value[b] = "."
        /\ DigitsEnd(value, b + 1) = Len(value) + 1

\* parseInt / parseFloat of a text that passed the test above
ToNumber(value) ==
    LET neg == value[1] = "-"
        a == IF neg THEN 2 ELSE 1
        b == DigitsEnd(value, a)
    IN  Num(neg, parseDigits(SubSeq(value, a, b - 1)),
            Significant(SubSeq(value, b + 1, Len(value))))

\* a parseValue that gives up the value when JSON.parse throws
parseValueDropping(value) ==
    IF value # <<>> /\ value[1] \in {"{", "["}
    THEN IF JSONparse(value).ok THEN JSONparse(value).val ELSE Str(<<>>)
    ELSE IF value = <<"true">> THEN Bool(TRUE)
    ELSE IF value = <<"false">> THEN Bool(FALSE)
    ELSE IF IsInteger(value) \/ IsDecimal(value) THEN ToNumber(value)
    ELSE IF value # <<>>
            /\ \/ value[1] = "\"" /\ value[Len(value)] = "\""
               \/ value[1] = "'" /\ value[Len(value)] = "'"
         THEN Str(SubSeq(value, 2, Len(value) - 1))
    ELSE Str(value)

\* lines 187-216
parseValue(value) ==
    IF value # <<>> /\ value[1] \in {"{", "["}
    THEN IF JSONparse(value).ok THEN JSONparse(value).val ELSE Str(value)
    ELSE IF value = <<"true">> THEN Bool(TRUE)
    ELSE IF value = <<"false">> THEN Bool(FALSE)
    ELSE IF IsInteger(value) \/ IsDecimal(value) THEN ToNumber(value)
    ELSE IF value # <<>>
            /\ \/ value[1] = "\"" /\ value[Len(value)] = "\""
               \/ value[1] = "'" /\ value[Len(value)] = "'"
         THEN Str(SubSeq(value, 2, Len(value) - 1))
    ELSE Str(value)

\* the inner loop of lines 125-136 from 0-based position j on: where it stops
\* and the depth it stops with
RECURSIVE SpanEnd(_, _, _, _)
SpanEnd(message, j, depth, braceDepth) ==
    IF j < Len(message) /\ (depth > 0 \/ braceDepth > 0)
    THEN LET c == message[j + 1]
         IN  IF c = "{" THEN SpanEnd(message, j + 1, depth, braceDepth + 1)
             ELSE IF c = "}" THEN SpanEnd(message, j + 1, depth, braceDepth - 1)
             ELSE IF c = "[" /\ braceDepth = 0
                  THEN SpanEnd(message, j + 1, depth + 1, braceDepth)
             ELSE IF c = "]" /\ braceDepth = 0
                  THEN SpanEnd(message, j + 1, depth - 1, braceDepth)
             ELSE SpanEnd(message, j + 1, depth, braceDepth)
    ELSE [j |-> j, depth |-> depth]

\* the loop of lines 117-149 from 0-based position i on: the spans it extracts,
\* each with the 0-based positions of its "[" (from) and past its "]" (to)
RECURSIVE ExtractSpans(_, _)
ExtractSpans(message, i) ==
    IF i >= Len(message) THEN <<>>
    ELSE IF message[i + 1] = "["
         THEN LET e == SpanEnd(message, i + 1, 1, 0)
              IN  IF e.depth = 0
                  THEN <<[from |-> i, to |-> e.j]>> \o ExtractSpans(message, e.j)
                  ELSE ExtractSpans(message, i + 1)
         ELSE ExtractSpans(message, i + 1)

\* message.substring(i + 1, j - 1) of every span: extractedParams
extractedParams(message) ==
    LET spans == ExtractSpans(message, 0)
    IN  [x \in 1..Len(spans) |-> SubSeq(message, spans[x].from + 2, spans[x].to - 1)]

\* param.match(/^([^=]+)=(.+)$/): the key and the value around the first "=",
\* null when the key or the value would be empty or the value holds a character
\* that . does not match
kvMatch(param) ==
    IF \E e \in 1..Len(param) : param[e] = "="
    THEN LET e == CHOOSE e \in 1..Len(param) :
                    param[e] = "=" /\ \A x \in 1..(e - 1) : param[x] # "="
             value == SubSeq(param, e + 1, Len(param))
         IN  IF e = 1 \/ value = <<>> \/ \E x \in 1..Len(value) : IsLineTerminator(value[x])
             THEN Null
             ELSE Some([key |-> SubSeq(param, 1, e - 1), value |-> value])
    ELSE Null

\* lines 152-162: the params object, a function from its keys; a key that
\* comes again takes the later value
RECURSIVE CollectParams(_, _)
CollectParams(extracted, params) ==
    IF extracted = <<>> THEN params
    ELSE LET kv == kvMatch(Head(extracted))
             key == IF kv # Null THEN trim(kv[1].key) ELSE trim(Head(extracted))
             val == IF kv # Null THEN parseValue(trim(kv[1].value)) ELSE Bool(TRUE)
         IN  CollectParams(Tail(extracted),
                [k \in DOMAIN params \cup {key} |-> IF k = key THEN val ELSE params[k]])

\* a removal that takes the text of the params and leaves their brackets
RECURSIVE RemoveParamsInside(_, _)
RemoveParamsInside(cleanMessage, extracted) ==
    IF extracted = <<>> THEN cleanMessage
    ELSE RemoveParamsInside(replaceFirst(cleanMessage, Head(extracted)), Tail(extracted))

\* lines 165-168: cleanMessage.replace(`[${param}]`, '') for every param
RECURSIVE RemoveParams(_, _)
RemoveParams(cleanMessage, extracted) ==
    IF extracted = <<>> THEN cleanMessage
    ELSE RemoveParams(replaceFirst(cleanMessage, <<"[">> \o Head(extracted) \o <<"]">>),
                      Tail(extracted))

\* the matches of /\|\s*(enter|leave)/ in str: the 1-based position of the "|"
\* and of the word
StatusAt(str) ==
    {k \in 1..Len(str) :
        /\ str[k] = "|"
        /\ SpaceEnd(str, k + 1) <= Len(str)
        /\ str[SpaceEnd(str, k + 1)] \in {"enter", "leave"}}

\* /\|\s*(enter|leave)(?:,\s*(\d+)ms)?/ on cleanMessage: the status and the
\* duration of the first match
statusMatch(str) ==
    IF StatusAt(str) = {} THEN Null
    ELSE LET k == CHOOSE k \in StatusAt(str) : \A x \in StatusAt(str) : k <= x
             w == SpaceEnd(str, k + 1)
             d == SpaceEnd(str, w + 2)
             e == DigitsEnd(str, d)
         IN  Some([status |-> str[w],
                   duration |->
                      IF w + 1 <= Len(str) /\ str[w + 1] = "," /\ e > d
                         /\ e <= Len(str) /\ str[e] = "ms"
                      THEN Some(parseDigits(SubSeq(str, d, e - 1))) ELSE Undefined])

\* cleanMessage.replace(/\|\s*(enter|leave).*$/, ''): the text from the first
\* match that no line terminator follows is removed
stripStatus(str) ==
    LET at == {k \in StatusAt(str) :
                  \A x \in SpaceEnd(str, k + 1)..Len(str) : ~IsLineTerminator(str[x])}
    IN  IF at = {} THEN str
        ELSE SubSeq(str, 1, (CHOOSE k \in at : \A x \in at : k <= x) - 1)

\* lines 104-182
parseMessageAndParams(message) ==
    With(extractedParams(message), LAMBDA extracted :
    With(trim(RemoveParams(message, extracted)), LAMBDA cleanMessage :
    With(statusMatch(cleanMessage), LAMBDA st :
        [message |-> IF st = Null THEN cleanMessage ELSE trim(stripStatus(cleanMessage)),
         params |-> CollectParams(extracted, <<>>),
         status |-> IF st = Null THEN Undefined ELSE Some(st[1].status),
         duration |-> IF st = Null THEN Undefined ELSE st[1].duration])))

\* part1.includes('.cpp') || part1.includes('.h')
IsSourceFile(part) == includes(part, <<".cpp">>) \/ includes(part, <<".h">>)

\* a parseLine that takes a single optional field for the function name
\* whatever its text
parseLineOneIsFunction(line, lineNum) ==
    With(matchLine(line), LAMBDA m :
        IF m = Null THEN Null
        ELSE With(m[1].parts, LAMBDA parts :
             With(parseMessageAndParams(m[1].rest), LAMBDA r :
                Some([timestamp |-> m[1].timestamp,
                      level |-> m[1].level,
                      processId |-> m[1].processId,
                      threadId |-> m[1].threadId,
                      sourceFile |-> IF Len(parts) >= 2 THEN Some(parts[1]) ELSE Undefined,
                      lineNumber |-> IF Len(parts) >= 2 THEN Some(parts[2]) ELSE Undefined,
                      functionName |->
                         IF Len(parts) = 3 THEN Some(parts[3])
                         ELSE IF Len(parts) = 1 THEN Some(parts[1]) ELSE Undefined,
                      message |-> r.message,
                      params |-> r.params,
                      status |-> r.status,
                      duration |-> r.duration,
                      _lineNumber |-> lineNum]))))

\* lines 46-99: null when the line does not match
parseLine(line, lineNum) ==
    With(matchLine(line), LAMBDA m :
        IF m = Null THEN Null
        ELSE With(m[1].parts, LAMBDA parts :
             With(parseMessageAndParams(m[1].rest), LAMBDA r :
                Some([timestamp |-> m[1].timestamp,
                      level |-> m[1].level,
                      processId |-> m[1].processId,
                      threadId |-> m[1].threadId,
                      sourceFile |->
                         IF Len(parts) >= 2 THEN Some(parts[1])
                         ELSE IF Len(parts) = 1 /\ IsSourceFile(parts[1])
                              THEN Some(parts[1]) ELSE Undefined,
                      lineNumber |-> IF Len(parts) >= 2 THEN Some(parts[2]) ELSE Undefined,
                      functionName |->
                         IF Len(parts) = 3 THEN Some(parts[3])
                         ELSE IF Len(parts) = 1 /\ ~IsSourceFile(parts[1])
                              THEN Some(parts[1]) ELSE Undefined,
                      message |-> r.message,
                      params |-> r.params,
                      status |-> r.status,
                      duration |-> r.duration,
                      _lineNumber |-> lineNum]))))

\* !v: false, 0, the empty string and null are falsy
Falsy(v) ==
    \/ IsBool(v) /\ ~v.bool
    \/ IsNum(v) /\ v.int = 0 /\ v.frac = <<>>
    \/ IsStr(v) /\ v.str = <<>>
    \/ v = JsonNull

\* an event built whenever params holds the key msg
parseEventNotificationAnyMsg(logLine) ==
    IF ~includes(logLine.message, Marker) THEN Null
    ELSE IF <<"msg">> \notin DOMAIN logLine.params THEN Null
    ELSE Some([timestamp |-> logLine.timestamp,
               level |-> logLine.level,
               message |-> logLine.params[<<"msg">>],
               details |->
                  IF <<"details">> \in DOMAIN logLine.params
                     /\ ~Falsy(logLine.params[<<"details">>])
                  THEN logLine.params[<<"details">>] ELSE Obj(<<>>),
               _lineNumber |-> logLine._lineNumber])

\* lines 221-243
parseEventNotification(logLine) ==
    IF ~includes(logLine.message, Marker) THEN Null
    ELSE IF <<"msg">> \notin DOMAIN logLine.params
            \/ Falsy(logLine.params[<<"msg">>]) THEN Null
    ELSE Some([timestamp |-> logLine.timestamp,
               level |-> logLine.level,
               message |-> logLine.params[<<"msg">>],
               details |->
                  IF <<"details">> \in DOMAIN logLine.params
                     /\ ~Falsy(logLine.params[<<"details">>])
                  THEN logLine.params[<<"details">>] ELSE Obj(<<>>),
               _lineNumber |-> logLine._lineNumber])

\* a loop that numbers the lines it keeps
RECURSIVE ParseLoopCountingKept(_, _, _)
ParseLoopCountingKept(rawLines, lineNum, acc) ==
    IF lineNum > Len(rawLines) THEN acc
    ELSE With(trim(rawLines[lineNum]), LAMBDA rawLine :
         With(parseLine(rawLine, Len(acc.lines) + 1), LAMBDA parsed :
         With(IF parsed # Null /\ includes(rawLine, Marker)
              THEN parseEventNotification(parsed[1]) ELSE Null, LAMBDA event :
            ParseLoopCountingKept(rawLines, lineNum + 1,
                IF rawLine = <<>> \/ parsed = Null THEN acc
                ELSE [lines |-> Append(acc.lines, parsed[1]),
                      events |-> IF event = Null THEN acc.events
                                 ELSE Append(acc.events, event[1])]))))

\* the loop of lines 15-35 from lineNum on
RECURSIVE ParseLoop(_, _, _)
ParseLoop(rawLines, lineNum, acc) ==
    IF lineNum > Len(rawLines) THEN acc
    ELSE With(trim(rawLines[lineNum]), LAMBDA rawLine :
         With(parseLine(rawLine, lineNum), LAMBDA parsed :
         With(IF parsed # Null /\ includes(rawLine, Marker)
              THEN parseEventNotification(parsed[1]) ELSE Null, LAMBDA event :
            ParseLoop(rawLines, lineNum + 1,
                IF rawLine = <<>> \/ parsed = Null THEN acc
                ELSE [lines |-> Append(acc.lines, parsed[1]),
                      events |-> IF event = Null THEN acc.events
                                 ELSE Append(acc.events, event[1])]))))

\* lines 10-40: the lines and the events the call leaves in the parser
parseFile(str) == ParseLoop(split(str), 1, [lines |-> <<>>, events |-> <<>>])

\* ------------------------------------------------------------------------
\* App.vue processLogContent: parser.parseFile(content), then
\* tasks.value = parser.getTasks()
\* ------------------------------------------------------------------------

\* an EventNotification as getTasks and getTaskNodes read it: message when it
\* is a plain name, details.task_id when details is an object that holds a
\* whole number (undefined, read as the falsy id 0, otherwise: a text kept raw
\* has no task_id), the line number in place of the timestamp
TreeEvent(ev) ==
    LET d == ev.details
        id == IF IsObj(d) /\ <<"task_id">> \in DOMAIN d.obj
              THEN d.obj[<<"task_id">>] ELSE JsonNull
    IN  [Event(IF IsStr(ev.message) /\ Len(ev.message.str) = 1
               THEN ev.message.str[1] ELSE "",
               IF IsNum(id) /\ ~id.neg /\ id.frac = <<>> THEN id.int ELSE 0,
               ev._lineNumber, "")
         EXCEPT !.name = ""]

TreeEvents(evs) == [x \in 1..Len(evs) |-> TreeEvent(evs[x])]

\* lines 122-140 of App.vue, for the next content the user loads
ProcessLogContent ==
    /\ selected # <<>>
    /\ LET r == parseFile(Head(selected))
       IN  /\ logLines' = r.lines
           /\ events' = r.events
           /\ tasks' = getTasks(TreeEvents(r.events))
    /\ parsedContent' = Append(parsedContent, Head(selected))
    /\ selected' = Tail(selected)
    /\ UNCHANGED <<poolVars, searchVars>>

\* the texts the contents are made of
Field(str) == <<"[">> \o str \o <<"]">>
Prefix == Field(<<"t">>) \o Field(<<"I">>) \o Field(<<"1">>) \o Field(<<"2">>)
Param(key, value) == <<"[", key, "=">> \o value \o <<"]">>
JsonTask == <<"{", "\"", "task_id", "\"", ":", "1", "}">>
EventLine(msg, details) ==
    Prefix \o Field(<<"f">>) \o Marker \o <<SP>> \o Param("msg", <<msg>>)
        \o <<SP>> \o Param("details", details)

RECURSIVE Flatten(_)
Flatten(strs) == IF strs = <<>> THEN <<>> ELSE Head(strs) \o Flatten(Tail(strs))

\* the lines of a file, joined by newlines
RECURSIVE Join(_)
Join(strs) ==
    IF strs = <<>> THEN <<>>
    ELSE IF Len(strs) = 1 THEN strs[1]
    ELSE strs[1] \o <<NL>> \o Join(Tail(strs))

\* the lines of the files: blank, of white space, without the four fields, with
\* a carriage return inside, plain, and event lines whose details are valid
\* JSON, JSON with an unquoted key, JSON with a comma too many, cut short, or
\* 0; a marker line without msg, with msg=0, with the marker inside a bracketed
\* field, with a text that becomes the marker once a parameter is removed
LogLineTexts ==
    { <<>>,
      <<SP, CR>>,
      <<"a">>,
      Field(<<"t">>) \o Field(<<"I">>) \o Field(<<"1">>) \o <<"a">>,
      Prefix \o <<"a", CR, "b">>,
      <<SP>> \o Prefix \o <<SP, "a", SP, CR>>,
      EventLine("Tasker.Task.Starting", JsonTask),
      EventLine("Node.PipelineNode.Succeeded", JsonTask),
      EventLine("Node.PipelineNode.Succeeded", <<"{", "task_id", ":", "1", "}">>),
      EventLine("Tasker.Task.Starting",
                <<"{", "\"", "task_id", "\"", ":", "1", ",", "}">>),
      EventLine("Node.PipelineNode.Succeeded",
                <<"[", "{", "\"", "task_id", "\"", ":", "1", "}">>),
      EventLine("Tasker.Task.Starting", <<"0">>),
      Prefix \o Marker \o <<SP>> \o Param("details", JsonTask),
      Prefix \o Marker \o <<SP>> \o Param("msg", <<"0">>),
      Prefix \o Field(Marker) \o <<SP>> \o Param("msg", <<"Tasker.Task.Starting">>)
          \o Param("details", JsonTask),
      Prefix \o <<"!!!OnEvent", "[", "x", "]", "Notify!!!">>
          \o Param("msg", <<"Tasker.Task.Starting">>) \o Param("details", JsonTask) }

\* the contents: up to MaxLines lines
Contents == {Join(ls) : ls \in UNION {[1..n -> LogLineTexts] : n \in 0..MaxLines}}

\* what the user loads after a first content, when anything
Reloads ==
    { <<>>, Prefix \o <<"a">>, EventLine("Tasker.Task.Starting", JsonTask),
      Join(<<<<"a">>, EventLine("Tasker.Task.Starting", JsonTask)>>) }

InitFiles ==
    /\ events = <<>> /\ tasks = <<>>
    /\ logLines = <<>> /\ parsedContent = <<>>
    /\ selected \in {<<c>> : c \in Contents}
                        \cup {<<c, d>> : <<c, d>> \in Contents \X Reloads}
    /\ PoolConstructed
    /\ SearchConstructed

NextFiles == ProcessLogContent
SpecFiles == InitFiles /\ [][NextFiles]_vars

\* single lines: the four fields, no, one or three further bracketed fields,
\* and up to MaxPieces pieces of text
Pieces ==
    { <<"[">>, <<"]">>, <<"{">>, <<"}">>, <<SP>>, <<"a">>, <<"|", "enter">>,
      <<"[", "x", "=", "5", "]">>, <<"[", "f", "]">> }

OptionalFields ==
    { <<>>, Field(<<"f">>), Field(<<"a", ".cpp">>),
      Field(<<"a", ".h">>) \o Field(<<"L", "1">>),
      Field(<<"a", ".cpp">>) \o Field(<<"L", "1">>) \o Field(<<"f">>) }

\* 'a=1 [x=5] [y=true] tail'
ExampleMessage ==
    <<"a", "=", "1", SP, "[", "x", "=", "5", "]", SP, "[", "y", "=", "true", "]",
      SP, "tail">>

\* 'a | leave, 15ms'
TimedMessage == <<"a", SP, "|", SP, "leave", ",", SP, "1", "5", "ms">>

SingleLines ==
    {Prefix \o opt \o Flatten(ps) :
        <<opt, ps>> \in OptionalFields \X UNION {[1..n -> Pieces] : n \in 0..MaxPieces}}
    \cup {Prefix \o ExampleMessage, Prefix \o TimedMessage}
    \cup {Flatten(ps) : ps \in UNION {[1..n -> Pieces \cup {Field(<<"t">>)}] : n \in 1..3}}

InitLines ==
    /\ events = <<>> /\ tasks = <<>>
    /\ logLines = <<>> /\ parsedContent = <<>>
    /\ selected \in {<<c>> : c \in SingleLines}
    /\ PoolConstructed
    /\ SearchConstructed

NextLines == ProcessLogContent
SpecLines == InitLines /\ [][NextLines]_vars

\* ------------------------------------------------------------------------
\* StringPool
\* ------------------------------------------------------------------------

\* Map.set on a Map held as a function from its keys
MapPut(map, key, val) ==
    [k \in DOMAIN map \cup {key} |-> IF k = key THEN val ELSE map[k]]

\* an intern that also stores '' when its argument is undefined or null
internStoringAbsent(map, str) ==
    IF str = Undefined
    THEN [pool |-> MapPut(map, "", ""), value |-> ""]
    ELSE LET stored == IF str[1] \notin DOMAIN map THEN MapPut(map, str[1], str[1])
                       ELSE map
         IN  [pool |-> stored, value |-> stored[str[1]]]

\* intern(str): the pool after the call and the string returned. str is
\* Some(s) for a string s, Undefined or Null otherwise
intern(map, str) ==
    IF str = Undefined
    THEN [pool |-> map, value |-> ""]
    ELSE LET stored == IF str[1] \notin DOMAIN map THEN MapPut(map, str[1], str[1])
                       ELSE map
         IN  [pool |-> stored, value |-> stored[str[1]]]

\* the strings handed to the pool, the empty string among them
PoolStrings == {"", "a", "b", "c"}

\* a call of intern: with a string, undefined or null
Intern ==
    \E str \in {Undefined, Null} \cup {Some(x) : x \in PoolStrings} :
        LET r == intern(pool, str)
        IN  /\ pool' = r.pool
            /\ returned' = [op |-> "intern", arg |-> str, value |-> r.value,
                            after |-> IF returned.op = "intern"
                                      THEN Some(returned.value) ELSE Null]
            /\ interned' = IF str = Undefined THEN interned
                           ELSE interned \cup {str[1]}
            /\ UNCHANGED <<parserVars, lineVars, searchVars>>

\* clear()
Clear ==
    /\ pool' = EmptyMap
    /\ returned' = [op |-> "clear"]
    /\ interned' = {}
    /\ UNCHANGED <<parserVars, lineVars, searchVars>>

\* size()
Size ==
    /\ returned' = [op |-> "size", count |-> Cardinality(DOMAIN pool),
                    after |-> returned.op]
    /\ UNCHANGED <<pool, interned, parserVars, lineVars, searchVars>>

NextPool == Intern \/ Clear \/ Size
SpecPool == Init /\ [][NextPool]_vars

\* ------------------------------------------------------------------------
\* Operations of TextSearchView
\* ------------------------------------------------------------------------

\* lines 89-107: addToHistory
addToHistory(history, str) ==
    LET rest == SelectSeq(history, LAMBDA h : h # str)
        all == <<str>> \o rest
    IN  IF Len(all) > 20 THEN SubSeq(all, 1, 20) ELSE all

\* lines 157-165: performSearch after the search it awaited has returned
Finish ==
    /\ searchHistory' = IF searchText' # <<>> /\ ~abortSearch'
                        THEN addToHistory(searchHistory, searchText')
                        ELSE searchHistory
    /\ isSearching' = FALSE
    /\ pc' = "idle"
    /\ frame' = NoFrame

\* a test of the search target that looks at the file name only
HasTargetByName == fileName # ""

\* line 139: there is a file name, and content or a handle
HasTarget == ~(fileName = "" \/ (fileContent = <<>> /\ fileHandle = Null))

\* lines 125-155 and 216-245: performSearch up to its first suspension. The
\* input and the button that call it are disabled while isSearching; the model
\* follows one search at a time, so a search starts when none is suspended.
PerformSearch ==
    /\ ~isSearching
    /\ UNCHANGED <<parserVars, lineVars, poolVars, fileVars, loadVars, optionVars, ctxVars, searchText>>
    /\ IF searchText = <<>>
       THEN /\ searchResults' = <<>>
            /\ totalMatches' = 0
            /\ alerted' = Null
            /\ UNCHANGED <<abortSearch, isSearching, searchHistory, pc, frame, reader,
                           tested, observed, engine, started>>
       ELSE IF isLoadingFile
       THEN /\ alerted' = Null
            /\ UNCHANGED <<abortSearch, isSearching, searchResults, totalMatches,
                           searchHistory, pc, frame, reader, tested, observed, engine,
                           started>>
       ELSE IF ~HasTarget
       THEN /\ alerted' = Some("nofile")
            /\ UNCHANGED <<abortSearch, isSearching, searchResults, totalMatches,
                           searchHistory, pc, frame, reader, tested, observed, engine,
                           started>>
       ELSE /\ pc = "idle"
            /\ abortSearch' = FALSE
            /\ alerted' = Null
            /\ tested' = <<>>
            /\ observed' = Null
            /\ started' = [results |-> searchResults, total |-> totalMatches]
            /\ UNCHANGED <<searchResults, totalMatches>>
            /\ IF isLargeFile /\ fileHandle # Null
               THEN /\ engine' = "stream"
                    /\ reader' = "locked"
                    /\ IF useRegex /\ ~Compiles(searchText)
                       THEN Finish
                       ELSE /\ frame' = [NoFrame EXCEPT
                                   !.bytes = fileHandle[1],
                                   !.searchPattern =
                                       IF useRegex
                                       THEN Some(RegExp(searchText, caseSensitive))
                                       ELSE Null]
                            /\ pc' = "await"
                            /\ isSearching' = TRUE
                            /\ UNCHANGED searchHistory
               ELSE /\ engine' = "normal"
                    /\ pc' = "timer"
                    /\ isSearching' = TRUE
                    /\ UNCHANGED <<frame, searchHistory, reader>>

\* lines 171-211: the timer of performNormalSearch fires
NormalSearch ==
    /\ pc = "timer"
    /\ LET r == performNormalSearch(fileContent, Settings, abortSearch)
       IN  /\ tested' = r.tested
           /\ IF r.stored
              THEN searchResults' = r.results /\ totalMatches' = Len(r.results)
              ELSE UNCHANGED <<searchResults, totalMatches>>
    /\ UNCHANGED <<parserVars, lineVars, poolVars, fileVars, loadVars, optionVars, ctxVars, searchText,
                   abortSearch, reader, alerted, observed, engine, started>>
    /\ Finish

\* lines 281-301 after the loop was left: the last line, the reader is released,
\* then the results are stored
StreamEnd(sc, buffer) ==
    LET end == LastLine(sc, buffer, frame.searchPattern, Settings)
    IN  /\ tested' = end.tested
        /\ reader' = "released"
        /\ searchResults' = end.results
        /\ totalMatches' = Len(end.results)
        /\ Finish

\* lines 239-279: reader.read() resolves with the next n bytes, the chunk is
\* scanned, and the loop runs on to its next suspension or to the end
StreamChunk(n) ==
    /\ pc = "await"
    /\ n \in 1..(Len(frame.bytes) - frame.pos)
    /\ UNCHANGED <<parserVars, lineVars, poolVars, fileVars, loadVars, optionVars, ctxVars, searchText,
                   abortSearch, alerted, engine, started>>
    /\ LET value == SubSeq(frame.bytes, frame.pos + 1, frame.pos + n)
           c == Carry(frame, value)
           sc == ChunkLoop(c.lines,
                    [lineNumber |-> frame.lineNumber, results |-> frame.results,
                     tested |-> tested, returned |-> FALSE],
                    frame.searchPattern, Settings)
       IN  IF sc.returned
           THEN /\ tested' = sc.tested
                /\ reader' = "released"
                /\ searchResults' = sc.results
                /\ totalMatches' = Len(sc.results)
                /\ UNCHANGED observed
                /\ Finish
           ELSE IF abortSearch
           THEN /\ observed' = Some(
                    [seen |-> Len(sc.results),
                     stored |-> Len(LastLine(sc, c.buffer, frame.searchPattern,
                                             Settings).results)])
                /\ StreamEnd(sc, c.buffer)
           ELSE /\ frame' = [frame EXCEPT !.pos = @ + n, !.pending = c.pending,
                                          !.buffer = c.buffer,
                                          !.lineNumber = sc.lineNumber,
                                          !.results = sc.results]
                /\ tested' = sc.tested
                /\ UNCHANGED <<searchResults, totalMatches, searchHistory,
                               isSearching, pc, reader, observed>>

\* lines 245-246 and 281-301: reader.read() resolves with done
StreamDone ==
    /\ pc = "await"
    /\ frame.pos = Len(frame.bytes)
    /\ UNCHANGED <<parserVars, lineVars, poolVars, fileVars, loadVars, optionVars, ctxVars, searchText,
                   abortSearch, alerted, observed, engine, started>>
    /\ StreamEnd([lineNumber |-> frame.lineNumber, results |-> frame.results,
                  tested |-> tested], frame.buffer)

StreamRead == \E n \in 1..MaxLen : StreamChunk(n)

\* a search that stores what it holds when the read fails
AfterReadErrorPartial(stored, results) == results

\* lines 295-297 and 160-162: the exception leaves performStreamSearch before
\* line 299, so searchResults keeps its value and the local results are dropped
AfterReadError(stored, results) == stored

\* lines 245, 295-297 and 160-165: reader.read() rejects; the finally block
\* releases the reader and performSearch catches the error and alerts
StreamFail ==
    /\ pc = "await"
    /\ reader' = "released"
    /\ alerted' = Some("search")
    /\ searchResults' = AfterReadError(searchResults, frame.results)
    /\ totalMatches' = Len(searchResults')
    /\ isSearching' = FALSE
    /\ pc' = "idle"
    /\ frame' = NoFrame
    /\ UNCHANGED <<parserVars, lineVars, poolVars, fileVars, loadVars, optionVars, ctxVars, searchText,
                   abortSearch, searchHistory, tested, observed, engine, started>>

\* lines 415-473: clearContent with its nextTick callback; a search or a file
\* load in flight keeps its locals
ClearContent ==
    /\ fileName # ""
    /\ abortSearch' = TRUE
    /\ isSearching' = FALSE
    /\ searchResults' = <<>>
    /\ totalMatches' = 0
    /\ searchText' = <<>>
    /\ isLargeFile' = FALSE
    /\ fileHandle' = Null
    /\ totalLines' = 0
    /\ fileSizeInMB' = 0
    /\ fileContent' = <<>>
    /\ fileName' = ""
    /\ loaded' = Null
    /\ selectedLine' = Null
    /\ contextLines' = <<>>
    /\ contextStartLine' = 0
    /\ shown' = Null
    /\ UNCHANGED <<parserVars, lineVars, poolVars, optionVars, isLoadingFile, upload, searchHistory, pc,
                   frame, reader, alerted, tested, observed, engine, started, loads,
                   counting>>

\* ------------------------------------------------------------------------
\* handleFileUpload
\* ------------------------------------------------------------------------

MB == 1024 * 1024

\* the mode test with the comparison of line 352 turned into <=
IsSmallFileInclusive(size) == size <= 5 * MB

\* line 352: fileSizeInMB.value < 5, on the quotient file.size / 1024 / 1024
IsSmallFile(size) == size < 5 * MB

\* lines 380-403: countLinesInFile, the stream taken as one chunk
countLinesInFile(bytes) ==
    LET lines == split(decode(FALSE, bytes).text)
    IN  (Len(lines) - 1) + (IF lines[Len(lines)] # <<>> THEN 1 ELSE 0)

\* a File: its name, its size in bytes and its content; the content of the
\* model is a few bytes whatever the size
File(name, size, bytes) == [name |-> name, size |-> size, bytes |-> bytes]

\* lines 337-367: handleFileUpload up to its await; one load runs at a time
HandleFileUpload(file) ==
    /\ upload = Null
    /\ isLoadingFile' = TRUE
    /\ fileName' = file.name
    /\ fileSizeInMB' = file.size
    /\ IF IsSmallFile(file.size)
       THEN /\ isLargeFile' = FALSE
            /\ UNCHANGED <<fileContent, fileHandle>>
       ELSE /\ isLargeFile' = TRUE
            /\ fileContent' = <<>>
            /\ fileHandle' = Some(file.bytes)
    /\ upload' = Some(file)
    /\ loaded' = Null
    /\ alerted' = Null
    /\ engine' = "none"
    /\ UNCHANGED <<parserVars, lineVars, poolVars, optionVars, ctxVars, totalLines, searchText, abortSearch,
                   isSearching, searchResults, totalMatches, searchHistory, pc,
                   frame, reader, tested, observed, started>>

\* lines 356-358 and 367-375: file.text() or countLinesInFile resolves
UploadDone ==
    /\ upload # Null
    /\ LET file == upload[1]
       IN  /\ IF IsSmallFile(file.size)
              THEN /\ fileContent' = text(file.bytes)
                   /\ totalLines' = Len(split(fileContent'))
                   /\ fileHandle' = Null
              ELSE /\ totalLines' = countLinesInFile(file.bytes)
                   /\ UNCHANGED <<fileContent, fileHandle>>
           /\ loaded' = IF fileName = file.name THEN Some(file) ELSE Null
    /\ isLoadingFile' = FALSE
    /\ upload' = Null
    /\ UNCHANGED <<parserVars, lineVars, poolVars, optionVars, ctxVars, fileName, isLargeFile, fileSizeInMB,
                   searchText, abortSearch, isSearching, searchResults,
                   totalMatches, searchHistory, pc, frame, reader, alerted, tested,
                   observed, engine, started>>

\* lines 371-375: file.text() or the read of countLinesInFile rejects
UploadFail ==
    /\ upload # Null
    /\ alerted' = Some("file")
    /\ isLoadingFile' = FALSE
    /\ upload' = Null
    /\ UNCHANGED <<parserVars, lineVars, poolVars, fileVars, optionVars, ctxVars, loaded, searchText, abortSearch,
                   isSearching, searchResults, totalMatches, searchHistory, pc,
                   frame, reader, tested, observed, engine, started>>

\* line 701: the user types into the search input, enabled while not searching
InputSearchText(str) ==
    /\ ~isSearching
    /\ searchText' = str
    /\ UNCHANGED <<parserVars, lineVars, poolVars, fileVars, loadVars, optionVars, ctxVars, abortSearch,
                   isSearching, searchResults, totalMatches, searchHistory, pc,
                   frame, reader, alerted, tested, observed, engine, started>>

\* ------------------------------------------------------------------------
\* Specifications of the search
\* ------------------------------------------------------------------------

\* the files of the model: every text of letters and newlines up to MaxLen
\* bytes, and every byte sequence up to MaxBytes bytes
Files ==
    UNION {[1..k -> {"a", NL}] : k \in 0..MaxLen}
    \cup UNION {[1..k -> ByteAlphabet] : k \in 0..MaxBytes}

SearchTexts == {<<"a">>, <<"A">>, <<"(">>}

\* a file has been loaded by handleFileUpload (lines 352-368: a small file is
\* decoded into fileContent, a large one is kept as a handle) and the search
\* text and options have been entered; nothing has been searched
InitSearch ==
    /\ ParserConstructed
    /\ PoolConstructed
    /\ \E bytes \in Files, large \in BOOLEAN :
        /\ fileName = "f"
        /\ isLargeFile = large
        /\ fileSizeInMB = IF large THEN 5 * MB ELSE 5 * MB - 1
        /\ fileContent = IF large THEN <<>> ELSE text(bytes)
        /\ fileHandle = IF large THEN Some(bytes) ELSE Null
        /\ totalLines = IF large THEN countLinesInFile(bytes)
                        ELSE Len(split(text(bytes)))
        /\ loaded = Some(File("f", fileSizeInMB, bytes))
    /\ isLoadingFile = FALSE /\ upload = Null
    /\ searchText \in SearchTexts
    /\ caseSensitive \in BOOLEAN
    /\ useRegex \in BOOLEAN
    /\ abortSearch = FALSE /\ isSearching = FALSE
    /\ searchResults = <<>> /\ totalMatches = 0 /\ searchHistory = <<>>
    /\ pc = "idle" /\ frame = NoFrame /\ reader = "none" /\ alerted = Null
    /\ tested = <<>> /\ observed = Null /\ engine = "none"
    /\ started = [results |-> <<>>, total |-> 0]
    /\ ContextConstructed

NextSearch ==
    PerformSearch \/ NormalSearch \/ StreamRead \/ StreamDone \/ StreamFail
    \/ ClearContent
SpecSearch == InitSearch /\ [][NextSearch]_vars

\* ------------------------------------------------------------------------
\* countLinesInFile, one reader.read() at a time
\* ------------------------------------------------------------------------

\* lines 380-384: the locals of countLinesInFile before its first read
CountFrame(bytes) ==
    [bytes |-> bytes, pos |-> 0, pending |-> FALSE, buffer |-> <<>>,
     lineCount |-> 0, reads |-> 0, result |-> Null]

\* the chunk step with every piece of the split counted
CountChunkAllPieces(fr, value) ==
    LET c == Carry(fr, value)
    IN  [fr EXCEPT !.pos = @ + Len(value), !.pending = c.pending,
                   !.buffer = c.buffer, !.lineCount = @ + Len(c.lines) + 1,
                   !.reads = @ + 1]

\* lines 391-394: the chunk is decoded onto the buffer, the pieces before the
\* last one are counted, the last one is kept
CountChunk(fr, value) ==
    LET c == Carry(fr, value)
    IN  [fr EXCEPT !.pos = @ + Len(value), !.pending = c.pending,
                   !.buffer = c.buffer, !.lineCount = @ + Len(c.lines),
                   !.reads = @ + 1]

otherCountVars ==
    <<parserVars, lineVars, poolVars, fileVars, loadVars, optionVars, searchText,
      abortSearch, isSearching, searchResults, totalMatches, searchHistory, pc,
      frame, reader, alerted, tested, observed, engine, started, selectedLine,
      contextLines, contextStartLine, loads, shown>>

\* lines 380-388: countLinesInFile(file) is called and awaits its first read
CountLinesInFile ==
    /\ counting = Null
    /\ \E bytes \in Files : counting' = Some(CountFrame(bytes))
    /\ UNCHANGED otherCountVars

\* lines 388-394: reader.read() resolves with the next n bytes
CountRead ==
    /\ counting # Null
    /\ counting[1].result = Null
    /\ \E n \in 1..(Len(counting[1].bytes) - counting[1].pos) :
        counting' = Some(CountChunk(counting[1],
                        SubSeq(counting[1].bytes, counting[1].pos + 1,
                               counting[1].pos + n)))
    /\ UNCHANGED otherCountVars

\* lines 389 and 397-402: reader.read() resolves with done, a non-empty buffer
\* is one more line, the count is returned
CountDone ==
    /\ counting # Null
    /\ counting[1].result = Null
    /\ counting[1].pos = Len(counting[1].bytes)
    /\ counting' = Some([counting[1] EXCEPT !.result =
            Some(counting[1].lineCount
                 + (IF counting[1].buffer # <<>> THEN 1 ELSE 0))])
    /\ UNCHANGED otherCountVars

NextCount == CountLinesInFile \/ CountRead \/ CountDone
SpecCount == Init /\ [][NextCount]_vars

\* ------------------------------------------------------------------------
\* jumpToLine, loadContextLines
\* ------------------------------------------------------------------------

\* const beforeLines = 3
beforeLines == 3

\* const afterLines = 50
afterLines == AfterScale

Max(a, b) == IF a >= b THEN a ELSE b
Min(a, b) == IF a <= b THEN a ELSE b

\* lines 561-571: the locals of loadContextLines(targetLine) before its first
\* read; bytes and pos are the stream of its reader
ContextFrame(targetLine) ==
    [target |-> targetLine,
     startLine |-> Max(1, targetLine - beforeLines),
     endLine |-> Min(totalLines, targetLine + afterLines),
     bytes |-> fileHandle[1], pos |-> 0, pending |-> FALSE, buffer |-> <<>>,
     currentLine |-> 0, lines |-> <<>>, returned |-> FALSE]

\* lines 581-596: the for loop over the complete lines of a chunk; returned is
\* set when a line after the window makes the function return
RECURSIVE ContextLoop(_, _)
ContextLoop(splitLines, fr) ==
    IF splitLines = <<>> THEN fr
    ELSE LET n == fr.currentLine + 1
             kept == [fr EXCEPT !.currentLine = n,
                                !.lines = IF n >= fr.startLine /\ n <= fr.endLine
                                          THEN Append(@, Head(splitLines)) ELSE @]
         IN  IF n > fr.endLine THEN [kept EXCEPT !.returned = TRUE]
             ELSE ContextLoop(Tail(splitLines), kept)

\* lines 577-596: the chunk is decoded onto the buffer, which is split; the last
\* piece is kept back, the others are walked
ContextChunk(fr, value) ==
    LET c == Carry(fr, value)
    IN  ContextLoop(c.lines, [fr EXCEPT !.pos = @ + Len(value),
                                        !.pending = c.pending,
                                        !.buffer = c.buffer])

\* lines 600-605: the last line, which no newline ends
ContextLastLine(fr) ==
    IF fr.buffer # <<>> /\ fr.currentLine < fr.endLine
    THEN [fr EXCEPT !.currentLine = @ + 1,
                    !.lines = IF fr.currentLine + 1 >= fr.startLine
                              THEN Append(@, fr.buffer) ELSE @]
    ELSE fr

\* a sequence without its k-th element
Remove(seq, k) == SubSeq(seq, 1, k - 1) \o SubSeq(seq, k + 1, Len(seq))

otherContextVars ==
    <<parserVars, lineVars, poolVars, fileVars, loadVars, optionVars, searchText,
      abortSearch, isSearching, searchResults, totalMatches, searchHistory, pc,
      frame, reader, tested, observed, engine, started, counting>>

\* lines 592-594 and 608-610: contextLines and contextStartLine are assigned
\* and the call k of loadContextLines is over
ContextStore(k, fr) ==
    /\ contextLines' = fr.lines
    /\ contextStartLine' = fr.startLine
    /\ shown' = Some(fr)
    /\ loads' = Remove(loads, k)

\* lines 500-508 and 557-574: a result is clicked; jumpToLine selects its line
\* and, for a large file, loadContextLines runs up to its first read
JumpToLine ==
    \E r \in 1..Len(searchResults) :
        LET lineNumber == searchResults[r].lineNumber
        IN  /\ selectedLine' = Some(lineNumber)
            /\ IF isLargeFile /\ fileHandle # Null
               THEN /\ Len(loads) < MaxLoads
                    /\ loads' = Append(loads, ContextFrame(lineNumber))
               ELSE UNCHANGED loads
            /\ UNCHANGED <<contextLines, contextStartLine, shown, alerted,
                           otherContextVars>>

\* lines 573-596: the reader.read() of call k resolves with the next n bytes
ContextRead ==
    \E k \in 1..Len(loads) :
        \E n \in 1..(Len(loads[k].bytes) - loads[k].pos) :
            LET fr == ContextChunk(loads[k],
                          SubSeq(loads[k].bytes, loads[k].pos + 1, loads[k].pos + n))
            IN  /\ IF fr.returned
                   THEN ContextStore(k, fr)
                   ELSE /\ loads' = [loads EXCEPT ![k] = fr]
                        /\ UNCHANGED <<contextLines, contextStartLine, shown>>
                /\ UNCHANGED <<selectedLine, alerted, otherContextVars>>

\* lines 574-575 and 599-610: the reader.read() of call k resolves with done
ContextDone ==
    \E k \in 1..Len(loads) :
        /\ loads[k].pos = Len(loads[k].bytes)
        /\ ContextStore(k, ContextLastLine(loads[k]))
        /\ UNCHANGED <<selectedLine, alerted, otherContextVars>>

\* lines 613-616: the reader.read() of call k rejects
ContextFail ==
    \E k \in 1..Len(loads) :
        /\ alerted' = Some("context")
        /\ loads' = Remove(loads, k)
        /\ UNCHANGED <<selectedLine, contextLines, contextStartLine, shown,
                       otherContextVars>>

\* the results and the tested lines of a search that ran to its end
Scanned(bytes, large, set) ==
    IF large
    THEN LET c == Carry(NoFrame, bytes)
             sc == ChunkLoop(c.lines,
                      [lineNumber |-> 0, results |-> <<>>, tested |-> <<>>,
                       returned |-> FALSE], Null, set)
         IN  IF sc.returned THEN sc ELSE LastLine(sc, c.buffer, Null, set)
    ELSE performNormalSearch(text(bytes), set, FALSE)

\* a file has been loaded and searched for the text a: the results are shown, no
\* line has been selected
InitContext ==
    /\ ParserConstructed
    /\ PoolConstructed
    /\ \E bytes \in Files, large \in BOOLEAN :
        /\ fileName = "f"
        /\ isLargeFile = large
        /\ fileSizeInMB = IF large THEN 5 * MB ELSE 5 * MB - 1
        /\ fileContent = IF large THEN <<>> ELSE text(bytes)
        /\ fileHandle = IF large THEN Some(bytes) ELSE Null
        /\ totalLines = IF large THEN countLinesInFile(bytes)
                        ELSE Len(split(text(bytes)))
        /\ loaded = Some(File("f", fileSizeInMB, bytes))
        /\ searchText = <<"a">> /\ caseSensitive = TRUE /\ useRegex = FALSE
        /\ searchResults = Scanned(bytes, large, Settings).results
        /\ tested = Scanned(bytes, large, Settings).tested
        /\ engine = IF large THEN "stream" ELSE "normal"
        /\ reader = IF large THEN "released" ELSE "none"
    /\ totalMatches = Len(searchResults)
    /\ searchHistory = addToHistory(<<>>, searchText)
    /\ isLoadingFile = FALSE /\ upload = Null
    /\ abortSearch = FALSE /\ isSearching = FALSE
    /\ pc = "idle" /\ frame = NoFrame /\ alerted = Null
    /\ observed = Null
    /\ started = [results |-> <<>>, total |-> 0]
    /\ ContextConstructed

NextContext ==
    JumpToLine \/ ContextRead \/ ContextDone \/ ContextFail \/ ClearContent
SpecContext == InitContext /\ [][NextContext]_vars

\* the files the user chooses from: a small one, an empty one, and two large
\* ones, one of them exactly 5 MB
UploadFiles ==
    {File("s", 5 * MB - 1, <<"a">>), File("e", 0, <<>>),
     File("l", 5 * MB, <<"a", NL, "a">>), File("x", 5 * MB + 1, <<"a">>)}

ChooseFile == \E file \in UploadFiles : HandleFileUpload(file)
TypeSearchText == \E str \in {<<"a">>} : InputSearchText(str)

NextUpload ==
    ChooseFile \/ UploadDone \/ UploadFail \/ TypeSearchText \/ PerformSearch
    \/ NormalSearch \/ StreamRead \/ StreamDone \/ StreamFail \/ ClearContent
SpecUpload == Init /\ [][NextUpload]_vars

\* ------------------------------------------------------------------------
\* Notions the properties of the tree builder are stated with
\* ------------------------------------------------------------------------

Idx == 1..Len(events)

\* timestamps are line positions: the event a record was built from
EventAt(ts) == events[ts]

IsStartOf(i, T) == IsTaskStarting(events[i]) /\ events[i].task_id = T
IsEndOf(i, T) == IsTaskEnd(events[i]) /\ events[i].task_id = T
IsPipelineOf(i, T) == IsPipelineNode(events[i]) /\ events[i].task_id = T
IsRecognitionOf(i, T) == IsRecognition(events[i]) /\ events[i].task_id = T

\* the TaskInfo records reported for task id T
TasksOf(T) == {k \in 1..Len(tasks) : tasks[k].task_id = T}

\* what a NodeInfo shows of the PipelineNode event that closed it
NodeView(n) == [timestamp |-> n.timestamp, status |-> n.status, name |-> n.name]

\* the NodeInfo expected of a PipelineNode event
NodeOfEvent(e) ==
    [timestamp |-> e.timestamp,
     status |-> IF e.message = "Node.PipelineNode.Succeeded" THEN "success" ELSE "failed",
     name |-> IF e.nd_name # "" THEN e.nd_name ELSE e.name]

\* the nodes expected of the PipelineNode events of T strictly between lo and hi
RECURSIVE ExpectedNodes(_, _, _)
ExpectedNodes(T, lo, hi) ==
    IF lo + 1 >= hi THEN <<>>
    ELSE (IF IsPipelineOf(lo + 1, T) THEN <<NodeOfEvent(events[lo + 1])>> ELSE <<>>)
         \o ExpectedNodes(T, lo + 1, hi)

NodeViews(nodes) == [p \in 1..Len(nodes) |-> NodeView(nodes[p])]

\* the ids of ids in the order of their first Task.Starting event
RECURSIVE FirstStarts(_, _, _)
FirstStarts(evs, ids, seen) ==
    IF evs = <<>> THEN <<>>
    ELSE LET e == Head(evs)
         IN  IF IsTaskStarting(e) /\ e.task_id \in ids /\ e.task_id \notin seen
             THEN <<e.task_id>> \o FirstStarts(Tail(evs), ids, seen \cup {e.task_id})
             ELSE FirstStarts(Tail(evs), ids, seen)

TaskIdsReported == [k \in 1..Len(tasks) |-> tasks[k].task_id]

\* the stream without its k-th event
RemoveAt(evs, k) == SubSeq(evs, 1, k - 1) \o SubSeq(evs, k + 1, Len(evs))

\* every (task, node, attempt) position of the output
AttemptPositions ==
    {<<k, p, q>> \in (1..Len(tasks)) \X (1..MaxEvents + 1) \X (1..MaxEvents + 1) :
        /\ p <= Len(tasks[k].nodes)
        /\ q <= Len(tasks[k].nodes[p].recognition_attempts)}

AttemptAt(pos) == tasks[pos[1]].nodes[pos[2]].recognition_attempts[pos[3]]

\* ------------------------------------------------------------------------
\* C1
\* ------------------------------------------------------------------------

\* C1 (as claimed): no attempt of a node under task T, and no nested node inside
\* an attempt, was built from an event whose task_id differs from T's.
C1_NoForeignEvents ==
    \A pos \in AttemptPositions :
        LET a == AttemptAt(pos)
            T == tasks[pos[1]].task_id
        IN  /\ EventAt(a.timestamp).task_id = T
            /\ \A r \in 1..Len(a.nested_nodes) :
                EventAt(a.nested_nodes[r].timestamp).task_id = T

\* C1 (amended): every attempt of a node under task T was built from a
\* Recognition event whose task_id is T's. The nested nodes inside an attempt are
\* built from RecognitionNode events of any task_id: those that precede the
\* attempt's event with no Recognition event of any task in between.
C1_AttemptsOfOwnTask ==
    \A pos \in AttemptPositions :
        LET a == AttemptAt(pos)
            T == tasks[pos[1]].task_id
        IN  /\ IsRecognitionOf(a.timestamp, T)
            /\ \A r \in 1..Len(a.nested_nodes) :
                LET ts == a.nested_nodes[r].timestamp
                IN  /\ IsRecognitionNode(EventAt(ts))
                    /\ ts < a.timestamp
                    /\ \A x \in (ts + 1)..(a.timestamp - 1) : ~IsRecognition(events[x])

\* C1 witness: the events of two tasks interleave and an attempt of a node of
\* one task holds a nested node built from an event of the other task
C1_Witness ==
    \E pos \in AttemptPositions :
        LET a == AttemptAt(pos)
        IN  \E r \in 1..Len(a.nested_nodes) :
                EventAt(a.nested_nodes[r].timestamp).task_id # tasks[pos[1]].task_id

\* ------------------------------------------------------------------------
\* C10
\* ------------------------------------------------------------------------

\* the window of a task with one Task.Starting event, at i, and no terminal
\* event before it: i up to its first terminal event, or the end of the stream
WindowEnd(T, i) ==
    IF \E j \in Idx : j > i /\ IsEndOf(j, T)
    THEN CHOOSE j \in Idx : j > i /\ IsEndOf(j, T) /\ \A x \in (i + 1)..(j - 1) : ~IsEndOf(x, T)
    ELSE Len(events) + 1

HasPlainWindow(T, i) ==
    /\ IsStartOf(i, T)
    /\ \A x \in Idx : IsStartOf(x, T) => x = i
    /\ \A x \in 1..(i - 1) : ~IsEndOf(x, T)

\* C10: every attempt lies in the first node of its task closed after its
\* Recognition event, the attempts of a node are in event order, no Recognition
\* event is an attempt at two places of the output, and every Recognition event
\* of T inside T's window that a PipelineNode event of T follows there is an
\* attempt of a node.
C10_AttemptInOneNode ==
    /\ \A pos \in AttemptPositions :
        LET a == AttemptAt(pos)
            nodes == tasks[pos[1]].nodes
            p == pos[2]
        IN  /\ IsRecognitionOf(a.timestamp, tasks[pos[1]].task_id)
            /\ a.timestamp < nodes[p].timestamp
            /\ p > 1 => nodes[p - 1].timestamp < a.timestamp
            /\ pos[3] > 1 =>
                nodes[p].recognition_attempts[pos[3] - 1].timestamp < a.timestamp
    /\ \A pos1 \in AttemptPositions, pos2 \in AttemptPositions :
        AttemptAt(pos1).timestamp = AttemptAt(pos2).timestamp => pos1 = pos2
    /\ \A T \in TaskIds : \A i \in Idx :
        HasPlainWindow(T, i) =>
            \A r \in (i + 1)..(WindowEnd(T, i) - 1) :
                ( /\ IsRecognitionOf(r, T)
                  /\ \E c \in (r + 1)..(WindowEnd(T, i) - 1) : IsPipelineOf(c, T) )
                => \E pos \in AttemptPositions :
                    /\ tasks[pos[1]].task_id = T
                    /\ AttemptAt(pos).timestamp = r

\* C10 witness: a task has two nodes, the first holds an attempt and the second,
\* closed later, holds none
C10_Witness ==
    \E k \in 1..Len(tasks) :
        /\ Len(tasks[k].nodes) >= 2
        /\ tasks[k].nodes[1].recognition_attempts # <<>>
        /\ tasks[k].nodes[2].recognition_attempts = <<>>

\* ------------------------------------------------------------------------
\* C2
\* ------------------------------------------------------------------------

\* C2 (as claimed): when task T has one Task.Starting event, at i, and one
\* terminal event after it, at j, getTasks reports T once, with the status of the
\* terminal event, a duration >= 0 and exactly the nodes of T's PipelineNode
\* events between i and j, in event order, status and name mirrored.
C2_TaskReconstruction ==
    \A T \in TaskIds : \A i \in Idx, j \in Idx :
        ( /\ i < j
          /\ IsStartOf(i, T) /\ \A x \in Idx : IsStartOf(x, T) => x = i
          /\ IsEndOf(j, T) /\ \A x \in Idx : (x > i /\ IsEndOf(x, T)) => x = j )
        =>
        /\ Cardinality(TasksOf(T)) = 1
        /\ \A k \in TasksOf(T) :
            /\ tasks[k].status = IF events[j].message = "Tasker.Task.Succeeded"
                                 THEN "succeeded" ELSE "failed"
            /\ tasks[k].duration # Undefined
            /\ ~tasks[k].duration[1].nan /\ tasks[k].duration[1].ms >= 0
            /\ NodeViews(tasks[k].nodes) = ExpectedNodes(T, i, j)

\* ------------------------------------------------------------------------
\* C7
\* ------------------------------------------------------------------------

\* C7 (as claimed): a task whose last Task.Starting event, at i, is followed by no
\* terminal event of its id is reported once, running, with exactly the nodes of
\* its PipelineNode events after i up to the end of the stream, in event order.
C7_UnterminatedTask ==
    \A T \in TaskIds : \A i \in Idx :
        ( /\ IsStartOf(i, T) /\ \A x \in Idx : IsStartOf(x, T) => x <= i
          /\ \A x \in Idx : x > i => ~IsEndOf(x, T) )
        =>
        /\ Cardinality(TasksOf(T)) = 1
        /\ \A k \in TasksOf(T) :
            /\ tasks[k].status = "running"
            /\ NodeViews(tasks[k].nodes) = ExpectedNodes(T, i, Len(events) + 1)

\* ------------------------------------------------------------------------
\* C8
\* ------------------------------------------------------------------------

\* C8 (as claimed): an event other than Task.Starting whose task_id had no earlier
\* Task.Starting has no effect: getTasks returns the same for the stream without it.
C8_UnattributableIgnored ==
    \A k \in Idx :
        ( /\ ~IsTaskStarting(events[k])
          /\ \A x \in 1..(k - 1) : ~IsStartOf(x, events[k].task_id) )
        => tasks = getTasks(RemoveAt(events, k))

\* ------------------------------------------------------------------------
\* C9
\* ------------------------------------------------------------------------

\* C9 (as claimed): getTasks returns exactly one TaskInfo per distinct task_id
\* carried by a Task.Starting event, for every integer id, in the order of the
\* first Task.Starting of each id.
C9_OneTaskPerStartedId == TaskIdsReported = FirstStarts(events, StartIds, {})

\* C9 (amended): getTasks returns exactly one TaskInfo per distinct non-zero
\* task_id carried by a Task.Starting event, none for any other id (0 included),
\* in the order of the first Task.Starting of each id.
C9_OneTaskPerTruthyId == TaskIdsReported = FirstStarts(events, StartIds \ {0}, {})

\* C9 witness: two tasks are reported, the one started first was started again
\* after the other one
C9_Witness ==
    /\ Len(tasks) = 2
    /\ \E i \in Idx, j \in Idx, k \in Idx :
        /\ i < j /\ j < k
        /\ IsStartOf(i, tasks[1].task_id)
        /\ IsStartOf(j, tasks[2].task_id)
        /\ IsStartOf(k, tasks[1].task_id)

\* ------------------------------------------------------------------------
\* Notions the properties of the search are stated with
\* ------------------------------------------------------------------------

\* a search of the loaded file has run to its end: it was not aborted and no
\* read failed
StreamCompleted ==
    /\ isLargeFile /\ fileHandle # Null
    /\ pc = "idle" /\ searchHistory # <<>> /\ alerted = Null
NormalCompleted == ~isLargeFile /\ fileName # "" /\ pc = "idle" /\ searchHistory # <<>>

\* the pattern a search with the current settings compiles
CurrentPattern ==
    IF useRegex THEN Some(RegExp(searchText, caseSensitive)) ELSE Null

PatternCompiles == ~useRegex \/ Compiles(searchText)

Matches(line) == findMatchInLine(line, CurrentPattern, Settings) # Null

Numbered(lines) == [i \in 1..Len(lines) |-> <<i, lines[i]>>]

\* the lines of a text, without the empty piece after a final newline
LinesOf(str) ==
    LET l == split(str)
    IN  IF l[Len(l)] = <<>> THEN SubSeq(l, 1, Len(l) - 1) ELSE l

\* the lines of the loaded large file, as one pass of the decoder gives them
StreamLines == LinesOf(decode(FALSE, fileHandle[1]).text)

\* (lineNumber, line) of the stored results
Stored == [i \in 1..Len(searchResults) |->
             <<searchResults[i].lineNumber, searchResults[i].line>>]

\* the first n matching lines, numbered, of lines
FirstMatching(lines, n) ==
    LET all == SelectSeq(Numbered(lines), LAMBDA p : Matches(p[2]))
    IN  SubSeq(all, 1, IF Len(all) < n THEN Len(all) ELSE n)

\* the number of matching lines tested before the i-th test
HeldBefore(i) == Cardinality({j \in 1..(i - 1) : Matches(tested[j][2])})

\* what the streaming scan tests when the whole file arrives as one chunk
WholeChunkTested ==
    LET c == Carry(NoFrame, fileHandle[1])
        sc == ChunkLoop(c.lines,
                 [lineNumber |-> 0, results |-> <<>>, tested |-> <<>>,
                  returned |-> FALSE],
                 CurrentPattern, Settings)
    IN  IF ~PatternCompiles THEN <<>>
        ELSE IF sc.returned THEN sc.tested
        ELSE LastLine(sc, c.buffer, CurrentPattern, Settings).tested

IsPrefix(a, b) == Len(a) <= Len(b) /\ SubSeq(b, 1, Len(a)) = a

\* ------------------------------------------------------------------------
\* C3
\* ------------------------------------------------------------------------

\* C3 (as claimed): whatever the chunks were, a streaming search that has run to
\* its end holds the results that performNormalSearch stores for the text of the
\* same file with the same search text and options.
C3_StreamEqualsBuffered ==
    (StreamCompleted /\ PatternCompiles)
    => searchResults = performNormalSearch(text(fileHandle[1]), Settings, FALSE).results

\* ------------------------------------------------------------------------
\* C4
\* ------------------------------------------------------------------------

\* C4: whatever the chunks are, the (lineNumber, line) pairs a streaming scan has
\* tested are at every moment a prefix of, and at its end exactly, the pairs
\* tested when the whole file arrives as one chunk; when the cap was not
\* reached these are the lines of the decoded file, numbered from 1, each once.
C4_ChunkingKeepsLines ==
    (isLargeFile /\ fileHandle # Null /\ ~abortSearch) =>
        /\ pc = "await" => IsPrefix(tested, WholeChunkTested)
        /\ StreamCompleted => tested = WholeChunkTested
        /\ (StreamCompleted /\ PatternCompiles /\ Len(searchResults) < maxResults)
            => tested = Numbered(StreamLines)

\* C4 witness: a scan is suspended between two chunks, lines were tested, and a
\* line cut by the chunk boundary is held back in the buffer
C4_Witness ==
    /\ isLargeFile /\ ~abortSearch /\ pc = "await"
    /\ tested # <<>>
    /\ frame.buffer # <<>>
    /\ frame.pos < Len(frame.bytes)
    /\ frame.bytes[frame.pos + 1] # NL

\* ------------------------------------------------------------------------
\* C5
\* ------------------------------------------------------------------------

\* C5 (as claimed): never more than maxResults results are stored, and once
\* maxResults results are held no further line is tested and no further chunk
\* is read.
C5_ScanStopsAtCap ==
    ~abortSearch =>
        /\ Len(searchResults) <= maxResults
        /\ \A i \in 1..Len(tested) : HeldBefore(i) < maxResults
        /\ ~(pc = "await" /\ Len(frame.results) >= maxResults)

\* C5 (amended): in both modes never more than maxResults results are held or
\* stored, and a search that ran to its end stores exactly the first maxResults
\* matching lines in file order (all of them when fewer match). In buffered mode
\* no line is tested once maxResults results are held. In streaming mode the only
\* line that can be tested with maxResults results held is the last line of a
\* file that no newline ends, at the end of the stream, and it is not stored.
C5_CapKeepsFirstMatches ==
    /\ Len(searchResults) <= maxResults
    /\ Len(frame.results) <= maxResults
    /\ (StreamCompleted /\ PatternCompiles)
        => Stored = FirstMatching(StreamLines, maxResults)
    /\ (NormalCompleted /\ PatternCompiles)
        => /\ Stored = FirstMatching(split(fileContent), maxResults)
           /\ \A i \in 1..Len(tested) : HeldBefore(i) < maxResults
    /\ (isLargeFile /\ fileHandle # Null /\ ~abortSearch) =>
        \A i \in 1..Len(tested) :
            HeldBefore(i) >= maxResults =>
                /\ i = Len(tested)
                /\ pc = "idle"
                /\ tested[i] = <<Len(StreamLines), StreamLines[Len(StreamLines)]>>
                /\ fileHandle[1][Len(fileHandle[1])] # NL
                /\ \A r \in 1..Len(searchResults) :
                    searchResults[r].lineNumber # tested[i][1]

\* C5 witness: a streaming search has run to its end on a file with more than
\* maxResults matching lines and holds maxResults results
C5_Witness ==
    /\ StreamCompleted /\ PatternCompiles
    /\ Len(searchResults) = maxResults
    /\ Len(SelectSeq(StreamLines, Matches)) > maxResults

\* ------------------------------------------------------------------------
\* C6
\* ------------------------------------------------------------------------

\* C6 (as claimed): once the scan has seen the abort flag set it appends no
\* result: what it stores is what it held when it saw the flag.
C6_NoResultAfterAbortSeen ==
    observed # Null => observed[1].stored = observed[1].seen

\* ------------------------------------------------------------------------
\* C11
\* ------------------------------------------------------------------------

\* the stream without its last event, and what getTasks returns for it
EventsBefore == SubSeq(events, 1, Len(events) - 1)
TasksBefore == getTasks(EventsBefore)

\* C11 (as claimed): whatever the event that extends a stream, a repeated
\* Task.Starting included, every task reported for the stream is reported for
\* the extended stream with a node list that the former node list is a prefix
\* of, every field of every node equal.
C11_NodesArePrefix ==
    events # <<>> =>
        \A k \in 1..Len(TasksBefore) :
            \E j \in 1..Len(tasks) :
                /\ tasks[j].task_id = TasksBefore[k].task_id
                /\ IsPrefix(TasksBefore[k].nodes, tasks[j].nodes)

\* ------------------------------------------------------------------------
\* C12
\* ------------------------------------------------------------------------

\* the event that created the TaskInfo of T: the last Task.Starting of T
Creation(T) == CHOOSE c \in Idx : IsStartOf(c, T) /\ \A x \in Idx : IsStartOf(x, T) => x <= c

\* the terminal events of T processed after the creation, in event order
EndsAfter(T, c) == SelectSeq([i \in Idx |-> i], LAMBDA j : j > c /\ IsEndOf(j, T))

\* C12: a TaskInfo is running exactly when it has neither end_time nor duration,
\* and that is when no terminal event of its id follows the Task.Starting that
\* created it. Otherwise its status is that of the last such terminal event,
\* end_time is the timestamp of that event, duration is the instant of end_time
\* minus the instant of start_time (NaN when a timestamp does not parse), and
\* events holds the Task.Starting followed by those terminal events in order.
C12_StatusDuration ==
    \A k \in 1..Len(tasks) :
        LET t == tasks[k]
            c == Creation(t.task_id)
            ends == EndsAfter(t.task_id, c)
            last == events[ends[Len(ends)]]
        IN  /\ t.start_time = events[c].timestamp
            /\ (t.status = "running") <=> (t.end_time = Undefined /\ t.duration = Undefined)
            /\ (t.status = "running") <=> (ends = <<>>)
            /\ t.events = <<events[c].timestamp>> \o [i \in 1..Len(ends) |-> events[ends[i]].timestamp]
            /\ ends # <<>> =>
                /\ t.status = IF last.message = "Tasker.Task.Succeeded"
                              THEN "succeeded" ELSE "failed"
                /\ t.end_time = Some(last.timestamp)
                /\ t.duration = Some(Minus(getTime(last.timestamp), getTime(t.start_time)))
                /\ (last.timestamp > 0 /\ t.start_time > 0)
                    => t.duration = Some(Number(last.timestamp - t.start_time))

\* C12 witness: a task that was started twice and then ended twice, first
\* succeeded and then failed, is reported failed with the duration from its
\* second start to its second end
C12_Witness ==
    \E k \in 1..Len(tasks) :
        /\ tasks[k].status = "failed"
        /\ Len(tasks[k].events) = 3
        /\ IsStartOf(1, tasks[k].task_id)
        /\ tasks[k].start_time > 1
        /\ tasks[k].duration # Undefined /\ ~tasks[k].duration[1].nan

\* ------------------------------------------------------------------------
\* C13
\* ------------------------------------------------------------------------

\* C13 (as claimed): on every exit path of performStreamSearch, the invalid
\* regular expression included, the reader it acquired is released: whenever no
\* search is in flight the reader of the latest streaming search is not locked.
C13_ReaderReleased == pc = "idle" => reader # "locked"

\* ------------------------------------------------------------------------
\* C14
\* ------------------------------------------------------------------------

\* C14 (as claimed): once the abort flag is set, a search in flight processes
\* no further chunk and no further line: no step taken while the flag is set and
\* a search is suspended gives a line to the matcher.
C14_AbortStopsWork == [][(abortSearch /\ pc # "idle") => tested' = tested]_vars

\* ------------------------------------------------------------------------
\* C15
\* ------------------------------------------------------------------------

\* a performSearch with regex mode on and a search text that does not compile
\* has returned
InvalidRegexSearched ==
    /\ useRegex /\ searchText # <<>> /\ ~Compiles(searchText)
    /\ engine # "none" /\ pc = "idle"

\* C15 (as claimed): a search with a regular expression that does not compile
\* ends in an error shown to the user and not as a completed search (its text
\* does not enter the search history), and no line was given to the matcher.
C15_InvalidRegexReported ==
    InvalidRegexSearched =>
        /\ alerted # Null
        /\ \A i \in 1..Len(searchHistory) : searchHistory[i] # searchText
        /\ tested = <<>>

\* ------------------------------------------------------------------------
\* C16
\* ------------------------------------------------------------------------

\* the tested lines that match: what the scan has gathered
Gathered == {i \in 1..Len(tested) : Matches(tested[i][2])}

C17_NoTargetRejected ==
    [][ ( /\ PerformSearch
          /\ searchText # <<>>
          /\ \/ isLoadingFile
             \/ fileName = ""
             \/ (fileContent = <<>> /\ fileHandle = Null) )
        => /\ ~isSearching'
           /\ UNCHANGED <<isSearching, abortSearch, searchResults, totalMatches,
                          searchHistory, pc, frame, reader, tested>> ]_vars

\* C17 witness: the user has typed a search text and called performSearch with no
\* file loaded; the call was rejected with the alert
C17_Witness ==
    /\ alerted = Some("nofile")
    /\ searchText # <<>>
    /\ fileName = ""
    /\ ~isSearching /\ pc = "idle"

\* ------------------------------------------------------------------------
\* C18
\* ------------------------------------------------------------------------

Increasing(results) ==
    \A i \in 1..(Len(results) - 1) : results[i].lineNumber < results[i + 1].lineNumber

\* the lines the scan of the loaded file meets, in order
ScannedLines ==
    IF isLargeFile THEN split(decode(FALSE, fileHandle[1]).text) ELSE split(fileContent)

\* C18: in the results a search holds and in the results stored, in both modes
\* and for every chunking, lineNumber is strictly increasing, so a line has at
\* most one result; the numbers count the lines of the file from 1: the i-th line
\* given to the matcher is line i of the file, line 1 being its first line, and
\* every result carries the number of its line.
C18_ResultsInFileOrder ==
    /\ Increasing(searchResults)
    /\ Increasing(frame.results)
    /\ fileName # "" =>
        /\ \A i \in 1..Len(tested) :
            /\ tested[i][1] = i
            /\ i <= Len(ScannedLines) /\ tested[i][2] = ScannedLines[i]
        /\ \A i \in 1..Len(searchResults) :
            /\ searchResults[i].lineNumber \in 1..Len(ScannedLines)
            /\ searchResults[i].line = ScannedLines[searchResults[i].lineNumber]

\* C18 witness: a streaming search stored two results, of two lines with a line
\* that does not match between them
C18_Witness ==
    /\ isLargeFile /\ fileName # ""
    /\ Len(searchResults) = 2
    /\ searchResults[1].lineNumber + 1 < searchResults[2].lineNumber

\* ------------------------------------------------------------------------
\* C19
\* ------------------------------------------------------------------------

\* the lines of the text of the loaded file
FileLines ==
    IF isLargeFile THEN split(text(fileHandle[1])) ELSE split(fileContent)

\* C19 (as claimed): every stored SearchResult has as line the whole text of
\* line lineNumber of the file, context equal to line, and
\* 0 <= matchStart <= matchEnd <= length of line.
C19_ResultFields ==
    fileName # "" =>
        \A i \in 1..Len(searchResults) :
            LET r == searchResults[i]
            IN  /\ r.lineNumber \in 1..Len(FileLines)
                /\ r.line = FileLines[r.lineNumber]
                /\ r.context = r.line
                /\ 0 <= r.matchStart
                /\ r.matchStart <= r.matchEnd
                /\ r.matchEnd <= Len(r.line)

\* ------------------------------------------------------------------------
\* C20
\* ------------------------------------------------------------------------

Last(S) == CHOOSE x \in S : \A y \in S : y <= x

\* the NextList events of T with message in msgs strictly between lo and hi
NextListsOf(T, msgs, lo, hi) ==
    {x \in (lo + 1)..(hi - 1) : events[x].message \in msgs /\ events[x].task_id = T}

\* what a node shows of an item: its name, "" when it has none, and whether
\* anchor and jump_back are set
ShownItem(item) ==
    [name |-> IF item.name = Undefined THEN "" ELSE item.name[1],
     anchor |-> item.anchor = Some(TRUE),
     jump_back |-> item.jump_back = Some(TRUE)]

\* what a node shows of the list of the event at x
ShownList(x) ==
    LET list == IF events[x].list = Undefined THEN <<>> ELSE events[x].list
    IN  [r \in 1..Len(list) |-> ShownItem(list[r])]

C27_SucceededTakesPrecedence ==
    \A T \in TaskIds : \A i \in Idx :
        HasPlainWindow(T, i) =>
            \A k \in TasksOf(T) : \A p \in 1..Len(tasks[k].nodes) :
                LET node == tasks[k].nodes[p]
                    lo == IF p = 1 THEN i ELSE tasks[k].nodes[p - 1].timestamp
                    starting == NextListsOf(T, {"Node.NextList.Starting"}, lo,
                                            node.timestamp)
                    succeeded == NextListsOf(T, {"Node.NextList.Succeeded"}, lo,
                                             node.timestamp)
                IN  (starting # {} /\ succeeded # {}) =>
                        node.next_list = ShownList(Last(succeeded))

\* ------------------------------------------------------------------------
\* C28
\* ------------------------------------------------------------------------

\* the state of the loop of getTaskNodes for task T after the events i..k
ScanUpTo(T, i, k) ==
    ScanTaskEvents(SubSeq(events, i, k), T,
        [nodes |-> <<>>, recognitionAttempts |-> <<>>,
         nestedNodes |-> <<>>, currentNextList |-> <<>>])

\* the timestamps of the nested nodes of an attempt, in their order
NestedOf(a) == [r \in 1..Len(a.nested_nodes) |-> a.nested_nodes[r].timestamp]

\* the RecognitionNode events strictly between lo and hi, in event order
RECURSIVE RecognitionNodesBetween(_, _)
RecognitionNodesBetween(lo, hi) ==
    IF lo + 1 >= hi THEN <<>>
    ELSE (IF IsRecognitionNode(events[lo + 1]) THEN <<lo + 1>> ELSE <<>>)
         \o RecognitionNodesBetween(lo + 1, hi)

\* the position before the events an attempt built at r can take nested nodes
\* from: the latest Recognition event of any task before r inside the window
\* that starts at i, or i
BufferStart(i, r) ==
    LET recos == {x \in (i + 1)..(r - 1) : IsRecognition(events[x])}
    IN  IF recos = {} THEN i ELSE Last(recos)

C29_NestedWithinNode ==
    \A T \in TaskIds : \A i \in Idx :
        HasPlainWindow(T, i) =>
            \A pos \in AttemptPositions :
                tasks[pos[1]].task_id = T =>
                    LET nodes == tasks[pos[1]].nodes
                        lo == IF pos[2] = 1 THEN i ELSE nodes[pos[2] - 1].timestamp
                        a == AttemptAt(pos)
                    IN  \A r \in 1..Len(a.nested_nodes) :
                            lo < a.nested_nodes[r].timestamp

\* ------------------------------------------------------------------------
\* C23
\* ------------------------------------------------------------------------

\* C23: intern of a string returns that string, intern of undefined or null
\* returns the empty string, intern of the string the previous intern returned
\* returns it again, size() is the number of distinct strings passed to intern
\* since the latest clear(), and size() right after clear() is 0.
C23_StringPool ==
    /\ returned.op = "intern" =>
        /\ returned.arg # Undefined => returned.value = returned.arg[1]
        /\ returned.arg = Undefined => returned.value = ""
        /\ (returned.after # Null /\ returned.arg = returned.after) =>
                returned.value = returned.after[1]
    /\ returned.op = "size" =>
        /\ returned.count = Cardinality(interned)
        /\ returned.after = "clear" => returned.count = 0

\* C23 witness: size() is called right after an intern and reports the two
\* distinct strings interned since the latest clear()
C23_Witness ==
    /\ returned.op = "size"
    /\ returned.after = "intern"
    /\ returned.count = 2
    /\ 2 = Cardinality(interned)

\* ------------------------------------------------------------------------
\* Notions the properties of the line parser are stated with
\* ------------------------------------------------------------------------

\* the content of the latest parseFile and its raw lines, trimmed
LatestContent == parsedContent[Len(parsedContent)]
RawLine(n) == trim(split(LatestContent)[n])
LineIdx == 1..Len(logLines)

\* [timestamp][level][pid][tid] of a LogLine, and the line re-serialised
FourFields(l) ==
    Field(l.timestamp) \o Field(l.level) \o Field(l.processId) \o Field(l.threadId)
Serialise(l) == FourFields(l) \o l.message
FiveFields(l) == <<l.timestamp, l.level, l.processId, l.threadId, l.message>>

\* the four fields of the LogLine are the texts of the first four bracketed
\* fields of the input line: none is empty, none holds "]", and the line
\* starts with them in brackets
FieldsOfInput(l) ==
    /\ \A f \in {l.timestamp, l.level, l.processId, l.threadId} :
        f # <<>> /\ \A x \in 1..Len(f) : f[x] # "]"
    /\ IsPrefix(FourFields(l), RawLine(l._lineNumber))

\* decomposing the re-serialised line gives the five fields again
RoundTrip(l) ==
    LET again == parseLine(Serialise(l), l._lineNumber)
    IN  again # Null /\ FiveFields(again[1]) = FiveFields(l)

\* ------------------------------------------------------------------------
\* C21
\* ------------------------------------------------------------------------

\* C21 (as claimed): for every line that matches the grammar the four fields of
\* the LogLine are the texts of the line's first four bracketed fields, and
\* decomposing the line re-serialised from timestamp, level, processId,
\* threadId and message gives the same five fields.
C21_RoundTrip ==
    \A x \in LineIdx : FieldsOfInput(logLines[x]) /\ RoundTrip(logLines[x])

\* C21 (amended): the four fields are the texts of the line's first four
\* bracketed fields, and decomposing the re-serialised line gives the same
\* five fields whenever the message does not start with a bracketed field and
\* holds no balanced bracketed span.
C21_FieldsPreserved ==
    \A x \in LineIdx :
        LET l == logLines[x]
        IN  /\ FieldsOfInput(l)
            /\ (~Bracketed(l.message, 1).ok /\ extractedParams(l.message) = <<>>)
                    => RoundTrip(l)

\* C21 witness: a line with three optional fields, a parameter and a status
\* suffix whose message is not empty and is found again after re-serialising
C21_Witness ==
    \E x \in LineIdx :
        LET l == logLines[x]
        IN  /\ l.functionName # Undefined /\ l.lineNumber # Undefined
            /\ l.params # <<>> /\ l.status # Undefined
            /\ l.message # <<>>
            /\ ~Bracketed(l.message, 1).ok /\ extractedParams(l.message) = <<>>
            /\ RoundTrip(l)

\* ------------------------------------------------------------------------
\* C22
\* ------------------------------------------------------------------------

\* the text without the spans, taken out by their positions, last span first
RECURSIVE Without(_, _)
Without(str, spans) ==
    IF spans = <<>> THEN str
    ELSE LET sp == spans[Len(spans)]
         IN  Without(SubSeq(str, 1, sp.from) \o SubSeq(str, sp.to + 1, Len(str)),
                     SubSeq(spans, 1, Len(spans) - 1))

\* the free text of the input line of a LogLine and the spans extracted from it
RestOf(l) == matchLine(RawLine(l._lineNumber))[1].rest
SpansOf(l) == ExtractSpans(RestOf(l), 0)
Inner(l, sp) == SubSeq(RestOf(l), sp.from + 2, sp.to - 1)

\* the value expected of the text v of a simple parameter
Typed(v) ==
    IF v \in Digits THEN Num(FALSE, DigitValue[v], <<>>)
    ELSE IF v = "true" THEN Bool(TRUE)
    ELSE Str(<<v>>)

\* what holds of every line: the message is the free text without the extracted
\* spans (and without the status suffix, when there is one), every key of
\* params is the key of an extracted span, a span [k=v] of three units gives
\* params[k] the typed value of v and a span [k] gives true, unless a later
\* span has the same key
SpansRemoved(l) ==
    LET cleaned == trim(Without(RestOf(l), SpansOf(l)))
    IN  /\ IF l.status = Undefined THEN l.message = cleaned
           ELSE IsPrefix(l.message, cleaned) /\ l.message # cleaned
        /\ \A key \in DOMAIN l.params :
            \E y \in 1..Len(SpansOf(l)) :
                LET inner == Inner(l, SpansOf(l)[y])
                IN  \/ key = trim(inner)
                    \/ \E e \in 1..Len(inner) :
                        inner[e] = "=" /\ key = trim(SubSeq(inner, 1, e - 1))
        /\ \A y \in 1..Len(SpansOf(l)) :
            LET inner == Inner(l, SpansOf(l)[y])
                later == {Inner(l, SpansOf(l)[z]) : z \in (y + 1)..Len(SpansOf(l))}
            IN  /\ (Len(inner) = 3 /\ inner[2] = "=" /\ inner[1] \in {"x", "y"}
                    /\ \A o \in later : o = <<>> \/ o[1] # inner[1])
                        => l.params[<<inner[1]>>] = Typed(inner[3])
                /\ (inner = <<"f">> /\ \A o \in later : o = <<>> \/ o[1] # "f")
                        => l.params[<<"f">>] = Bool(TRUE)

IsExample(l) == RawLine(l._lineNumber) = Prefix \o ExampleMessage

ExampleParams(l) ==
    /\ DOMAIN l.params = {<<"x">>, <<"y">>}
    /\ l.params[<<"x">>] = Num(FALSE, 5, <<>>)
    /\ l.params[<<"y">>] = Bool(TRUE)

\* C22 (as claimed): 'a=1 [x=5] [y=true] tail' gives params {x: 5, y: true} and
\* the message 'a=1  tail' with two spaces; a=1, outside brackets, is no
\* parameter.
C22_ExampleTwoSpaces ==
    \A x \in LineIdx :
        IsExample(logLines[x]) =>
            /\ ExampleParams(logLines[x])
            /\ logLines[x].message = <<"a", "=", "1", SP, SP, "tail">>

\* C22 (amended): every extracted span is removed from the message and gives a
\* typed value, text outside brackets gives no parameter, and
\* 'a=1 [x=5] [y=true] tail' gives params {x: 5, y: true} and the message
\* 'a=1   tail' with the three spaces that stood around the two spans.
C22_ParamExtraction ==
    \A x \in LineIdx :
        /\ SpansRemoved(logLines[x])
        /\ IsExample(logLines[x]) =>
            /\ ExampleParams(logLines[x])
            /\ logLines[x].message = <<"a", "=", "1", SP, SP, SP, "tail">>

\* C22 witness: the example line has been parsed
C22_Witness ==
    \E x \in LineIdx :
        /\ IsExample(logLines[x])
        /\ Len(SpansOf(logLines[x])) = 2
        /\ logLines[x].message # RestOf(logLines[x])

\* ------------------------------------------------------------------------
\* C24
\* ------------------------------------------------------------------------

\* the position of the "]" that ends the bracketed field starting at a: the
\* first "]" after a "[" at a, with text in between; 0 when there is none
GroupEnd(line, a) ==
    LET ends == {b \in (a + 2)..Len(line) :
                    line[b] = "]" /\ \A x \in (a + 1)..(b - 1) : line[x] # "]"}
    IN  IF a <= Len(line) /\ line[a] = "[" /\ ends # {}
        THEN CHOOSE b \in ends : TRUE ELSE 0

\* the position after n bracketed fields in a row from a on, 0 when the line
\* does not hold them
RECURSIVE AfterGroups(_, _, _)
AfterGroups(line, a, n) ==
    IF n = 0 THEN a
    ELSE IF GroupEnd(line, a) = 0 THEN 0
    ELSE AfterGroups(line, GroupEnd(line, a) + 1, n - 1)

\* the grammar of a line: four bracketed fields, up to three more, white
\* space, and free text that holds no line terminator
MatchesGrammar(line) ==
    \E n \in 4..7 :
        LET e == AfterGroups(line, 1, n)
        IN  /\ e # 0
            /\ \E w \in e..(Len(line) + 1) :
                /\ \A x \in e..(w - 1) : IsSpace(line[x])
                /\ \A x \in w..Len(line) : ~IsLineTerminator(line[x])

\* the positions, among all raw lines, of the lines that are not blank and
\* match the grammar, in file order
RECURSIVE KeptFrom(_)
KeptFrom(n) ==
    IF n > Len(split(LatestContent)) THEN <<>>
    ELSE (IF RawLine(n) # <<>> /\ MatchesGrammar(RawLine(n)) THEN <<n>> ELSE <<>>)
         \o KeptFrom(n + 1)

\* C24: after every parseFile the LogLines are exactly the lines of the content
\* of that call that are not blank once trimmed and match the grammar, in file
\* order, each with its 1-based position among all raw lines and the fields of
\* that raw line; the events are, in file order, events of such lines and carry
\* the LogLine's line number, timestamp and level. Nothing of an earlier call
\* is left.
C24_MalformedLinesSkipped ==
    parsedContent # <<>> =>
        /\ [x \in LineIdx |-> logLines[x]._lineNumber] = KeptFrom(1)
        /\ \A x \in LineIdx : FieldsOfInput(logLines[x])
        /\ \A y \in 1..Len(events) :
            /\ \E x \in LineIdx :
                /\ logLines[x]._lineNumber = events[y]._lineNumber
                /\ logLines[x].timestamp = events[y].timestamp
                /\ logLines[x].level = events[y].level
                /\ includes(RawLine(events[y]._lineNumber), Marker)
            /\ y > 1 => events[y - 1]._lineNumber < events[y]._lineNumber

\* C24 witness: a second content has been parsed after one that gave two
\* events; its first raw line is dropped and its second raw line is the only
\* LogLine and the only event, with line number 2
C24_Witness ==
    /\ Len(parsedContent) = 2
    /\ Len(parseFile(parsedContent[1]).events) = 2
    /\ Len(split(LatestContent)) = 2
    /\ Len(logLines) = 1 /\ logLines[1]._lineNumber = 2
    /\ Len(events) = 1 /\ events[1]._lineNumber = 2

\* ------------------------------------------------------------------------
\* C25
\* ------------------------------------------------------------------------

\* the parameters key=value of raw line n whose value starts with "{" or "["
\* and is no valid JSON, no later parameter of the line having the same key
MalformedParams(n) ==
    LET m == matchLine(RawLine(n))
        extracted == IF m = Null THEN <<>> ELSE extractedParams(m[1].rest)
        KeyOf(param) == IF kvMatch(param) = Null THEN trim(param)
                        ELSE trim(kvMatch(param)[1].key)
    IN  {[key |-> KeyOf(extracted[y]), value |-> trim(kvMatch(extracted[y])[1].value)] :
            y \in {y \in 1..Len(extracted) :
                    /\ kvMatch(extracted[y]) # Null
                    /\ LET v == trim(kvMatch(extracted[y])[1].value)
                       IN  v # <<>> /\ v[1] \in {"{", "["} /\ ~JSONparse(v).ok
                    /\ \A z \in (y + 1)..Len(extracted) :
                            KeyOf(extracted[z]) # KeyOf(extracted[y])}}

\* nothing of the output of getTasks was built from the event of line n
InNoTask(n) ==
    \A k \in 1..Len(tasks) :
        /\ tasks[k].start_time # n
        /\ tasks[k].end_time # Some(n)
        /\ \A p \in 1..Len(tasks[k].nodes) :
            /\ tasks[k].nodes[p].timestamp # n
            /\ \A q \in 1..Len(tasks[k].nodes[p].recognition_attempts) :
                tasks[k].nodes[p].recognition_attempts[q].timestamp # n

EventsOf(l) == {y \in 1..Len(events) : events[y]._lineNumber = l._lineNumber}

\* C30 (as claimed): a LogLine has an event exactly when its line holds the
\* marker and its params hold the key msg; the event's message is the msg
\* value, its details are the details param, or an empty mapping when that is
\* absent, and timestamp, level and line number are those of the LogLine.
C30_EventPerMarkerLine ==
    \A x \in LineIdx :
        LET l == logLines[x]
        IN  /\ EventsOf(l) # {} <=>
                ( /\ includes(RawLine(l._lineNumber), Marker)
                  /\ <<"msg">> \in DOMAIN l.params )
            /\ \A y \in EventsOf(l) :
                /\ events[y].message = l.params[<<"msg">>]
                /\ events[y].details =
                      IF <<"details">> \in DOMAIN l.params
                      THEN l.params[<<"details">>] ELSE Obj(<<>>)
                /\ events[y].timestamp = l.timestamp
                /\ events[y].level = l.level

\* C30 (amended): a LogLine has an event, and then one only, exactly when its
\* raw line and its cleaned message both hold the marker and its params hold a
\* msg that is truthy (not 0, false or the empty string); the event's message
\* is the msg value, its details are the details param when that is present
\* and truthy, an empty mapping otherwise, and timestamp, level and line number
\* are those of the LogLine. Every event is the event of a LogLine.
C30_EventExtraction ==
    /\ \A x \in LineIdx :
        LET l == logLines[x]
        IN  /\ EventsOf(l) # {} <=>
                ( /\ includes(RawLine(l._lineNumber), Marker)
                  /\ includes(l.message, Marker)
                  /\ <<"msg">> \in DOMAIN l.params
                  /\ ~Falsy(l.params[<<"msg">>]) )
            /\ Cardinality(EventsOf(l)) <= 1
            /\ \A y \in EventsOf(l) :
                /\ events[y].message = l.params[<<"msg">>]
                /\ events[y].details =
                      IF <<"details">> \in DOMAIN l.params
                         /\ ~Falsy(l.params[<<"details">>])
                      THEN l.params[<<"details">>] ELSE Obj(<<>>)
                /\ events[y].timestamp = l.timestamp
                /\ events[y].level = l.level
    /\ \A y \in 1..Len(events) :
        \E x \in LineIdx : logLines[x]._lineNumber = events[y]._lineNumber

\* C30 witness: a marker line with msg=0 has no event, and a marker line with
\* details=0 has an event whose details are the empty mapping
C30_Witness ==
    \E x \in LineIdx, z \in LineIdx :
        /\ includes(logLines[x].message, Marker)
        /\ <<"msg">> \in DOMAIN logLines[x].params
        /\ EventsOf(logLines[x]) = {}
        /\ <<"details">> \in DOMAIN logLines[z].params
        /\ IsNum(logLines[z].params[<<"details">>])
        /\ \E y \in EventsOf(logLines[z]) : events[y].details = Obj(<<>>)

\* ------------------------------------------------------------------------
\* C31
\* ------------------------------------------------------------------------

\* the number of bracketed fields, seven at most, the line starts with
LeadingFields(line) ==
    LET ns == {n \in 0..7 : AfterGroups(line, 1, n) # 0}
    IN  CHOOSE n \in ns : \A o \in ns : o <= n

\* the text of the n-th bracketed field of the line
FieldText(line, n) ==
    LET a == AfterGroups(line, 1, n - 1)
    IN  SubSeq(line, a + 1, GroupEnd(line, a) - 1)

\* the text holds '.cpp' or '.h'
HoldsExtension(str) == \E x \in 1..Len(str) : str[x] \in {".cpp", ".h"}

\* C31: a line that starts with fewer than four bracketed fields gives no
\* LogLine; of a line that gives one, three further fields are sourceFile,
\* lineNumber and functionName; two are sourceFile and lineNumber, functionName
\* unset; one is sourceFile when its text holds '.cpp' or '.h' and functionName
\* otherwise, the other two unset; none leaves the three unset.
C31_OptionalFieldsByCount ==
    parsedContent # <<>> =>
        /\ \A n \in 1..Len(split(LatestContent)) :
            LeadingFields(RawLine(n)) < 4 =>
                \A x \in LineIdx : logLines[x]._lineNumber # n
        /\ \A x \in LineIdx :
            LET l == logLines[x]
                raw == RawLine(l._lineNumber)
                opt == LeadingFields(raw) - 4
                F(n) == FieldText(raw, 4 + n)
            IN  /\ opt \in 0..3
                /\ opt = 3 => /\ l.sourceFile = Some(F(1))
                              /\ l.lineNumber = Some(F(2))
                              /\ l.functionName = Some(F(3))
                /\ opt = 2 => /\ l.sourceFile = Some(F(1))
                              /\ l.lineNumber = Some(F(2))
                              /\ l.functionName = Undefined
                /\ opt = 1 => /\ l.lineNumber = Undefined
                              /\ IF HoldsExtension(F(1))
                                 THEN l.sourceFile = Some(F(1))
                                      /\ l.functionName = Undefined
                                 ELSE l.sourceFile = Undefined
                                      /\ l.functionName = Some(F(1))
                /\ opt = 0 => /\ l.sourceFile = Undefined
                              /\ l.lineNumber = Undefined
                              /\ l.functionName = Undefined

\* C31 witness: a line with one optional field, which holds '.cpp', has given a
\* LogLine with that field as sourceFile and no functionName
C31_Witness ==
    \E x \in LineIdx :
        /\ LeadingFields(RawLine(logLines[x]._lineNumber)) = 5
        /\ logLines[x].sourceFile = Some(<<"a", ".cpp">>)
        /\ logLines[x].functionName = Undefined

\* ------------------------------------------------------------------------
\* C32
\* ------------------------------------------------------------------------

\* the "{" at a and the "}" at b of str are a pair: the braces from a on are
\* open until b closes the last of them
BracePair(str, a, b) ==
    LET Open(x) == Cardinality({y \in a..x : str[y] = "{"})
                       - Cardinality({y \in a..x : str[y] = "}"})
    IN  /\ a < b /\ str[a] = "{" /\ str[b] = "}"
        /\ Open(b) = 0
        /\ \A x \in a..(b - 1) : Open(x) > 0

\* position pos of str lies inside {...}
InsideBraces(str, pos) ==
    \E a \in 1..(pos - 1), b \in (pos + 1)..Len(str) : BracePair(str, a, b)

\* C32 (as claimed): every parameter is a span of the free text from a "[" to a
\* "]", the spans follow each other without overlap, and neither the "[" nor
\* the "]" of a parameter lies inside {...}.
C32_BracketsInsideBraces ==
    \A x \in LineIdx :
        LET l == logLines[x]
            rest == RestOf(l)
            spans == SpansOf(l)
        IN  \A y \in 1..Len(spans) :
                /\ rest[spans[y].from + 1] = "[" /\ rest[spans[y].to] = "]"
                /\ y > 1 => spans[y - 1].to <= spans[y].from
                /\ ~InsideBraces(rest, spans[y].from + 1)
                /\ ~InsideBraces(rest, spans[y].to)

\* ------------------------------------------------------------------------
\* C33
\* ------------------------------------------------------------------------

\* the free text of the input line of a LogLine after its parameters are removed
CleanedOf(l) == trim(Without(RestOf(l), SpansOf(l)))

\* str ends with a status suffix that starts at k: "|", white space, enter or
\* leave, and then nothing or ",", white space, digits and "ms"
SuffixAt(str, k) ==
    LET w == SpaceEnd(str, k + 1)
        d == SpaceEnd(str, w + 2)
        e == DigitsEnd(str, d)
    IN  /\ str[k] = "|"
        /\ w <= Len(str) /\ str[w] \in {"enter", "leave"}
        /\ \/ w = Len(str)
           \/ /\ w + 1 <= Len(str) /\ str[w + 1] = ","
              /\ e > d /\ e = Len(str) /\ str[e] = "ms"

\* C33 (as claimed): a LogLine has a status exactly when its message, after the
\* parameters are removed, ends with a status suffix; the status is the word of
\* that suffix, the duration its number, and the message is the text before the
\* suffix, without the white space at its end; without such a suffix there is
\* no status and no duration and the message is not shortened.
C33_StatusSuffix ==
    \A x \in LineIdx :
        LET l == logLines[x]
            cleaned == CleanedOf(l)
            at == {k \in 1..Len(cleaned) : SuffixAt(cleaned, k)}
        IN  IF at = {}
            THEN /\ l.status = Undefined /\ l.duration = Undefined
                 /\ l.message = cleaned
            ELSE \E k \in at :
                    /\ l.status = Some(cleaned[SpaceEnd(cleaned, k + 1)])
                    /\ l.message = trimEnd(SubSeq(cleaned, 1, k - 1))

\* ------------------------------------------------------------------------
\* C34
\* ------------------------------------------------------------------------

\* two texts compared as the search compares them: letter by letter, without
\* regard to case when case sensitivity is off
SameText(a, b) ==
    /\ Len(a) = Len(b)
    /\ \A x \in 1..Len(a) :
        \/ a[x] = b[x]
        \/ ~caseSensitive /\ {a[x], b[x]} = {"a", "A"}

\* the 0-based positions of the line where the search text stands (a pattern of
\* the model is a text of plain letters and matches where that text stands)
Occurrences(line) ==
    {i \in 0..(Len(line) - Len(searchText)) :
        SameText(SubSeq(line, i + 1, i + Len(searchText)), searchText)}

\* C34 (as claimed): after a search of a buffered file that ran to its end
\* below the cap, with regex mode off or with a pattern that compiles, a line
\* of the file has a SearchResult exactly when the search text (the pattern)
\* occurs in it, compared without regard to case when case sensitivity is off;
\* matchStart is the first occurrence and matchEnd is matchStart plus the
\* length of the match.
C34_Matching ==
    (NormalCompleted /\ PatternCompiles /\ Len(searchResults) < maxResults) =>
        \A n \in 1..Len(FileLines) :
            LET occ == Occurrences(FileLines[n])
                found == {i \in 1..Len(searchResults) : searchResults[i].lineNumber = n}
            IN  /\ found # {} <=> occ # {}
                /\ \A i \in found :
                    /\ searchResults[i].matchStart \in occ
                    /\ \A o \in occ : searchResults[i].matchStart <= o
                    /\ searchResults[i].matchEnd =
                          searchResults[i].matchStart + Len(searchText)

\* ------------------------------------------------------------------------
\* C36: what countLinesInFile returns
\* ------------------------------------------------------------------------

Counted == counting # Null /\ counting[1].result # Null

\* the number of newline bytes of a file
Newlines(bytes) == Cardinality({i \in 1..Len(bytes) : bytes[i] = NL})

\* the bytes after the last newline of a file, the whole file when it has none
AfterLastNewline(bytes) ==
    LET at == {i \in 1..Len(bytes) : bytes[i] = NL}
    IN  IF at = {} THEN bytes
        ELSE SubSeq(bytes, (CHOOSE i \in at : \A j \in at : j <= i) + 1, Len(bytes))

\* C36 as stated: countLinesInFile returns the number of newline characters of
\* the file, whatever the content and the chunking
C36_CountsNewlines ==
    Counted => counting[1].result[1] = Newlines(counting[1].bytes)

\* C36, amended: countLinesInFile returns the number of lines: the number of
\* newline characters, plus one when the streaming decoder gives some text for
\* the bytes after the last newline; the chunking does not change the count
C36_CountsLines ==
    Counted =>
        /\ counting[1].result[1] =
              Newlines(counting[1].bytes)
              + (IF decode(FALSE, AfterLastNewline(counting[1].bytes)).text # <<>>
                 THEN 1 ELSE 0)
        /\ counting[1].result[1] = countLinesInFile(counting[1].bytes)

\* a file of two lines with no final newline has been counted in several reads
C36_Witness ==
    /\ Counted
    /\ counting[1].reads >= 2
    /\ Newlines(counting[1].bytes) = 1
    /\ counting[1].bytes[Len(counting[1].bytes)] = "a"
    /\ counting[1].result[1] = 2

\* ------------------------------------------------------------------------
\* C37, C38: clearContent while a search is in flight
\* ------------------------------------------------------------------------

\* no file has been chosen since the latest clearContent (handleFileUpload sets
\* fileName at once, clearContent empties it)
Cleared == fileName = ""

\* C37: after clearContent, and until a file is loaded again, searchResults and
\* contextLines stay empty and totalMatches stays 0, also when a search or a
\* context load was in flight
C37_ClearIsFinal ==
    Cleared => searchResults = <<>> /\ totalMatches = 0 /\ contextLines = <<>>

\* some performSearch has started scanning and has not finished
SearchRunning == pc \in {"timer", "await"}

\* C38: isSearching is true in exactly the states where a search has started
\* scanning and has not finished
C38_IsSearchingTracksSearch == isSearching <=> SearchRunning

\* ------------------------------------------------------------------------
\* C40: the search target and the file name
\* ------------------------------------------------------------------------

\* the files of the model that carry the name shown
Named == {f \in UploadFiles : f.name = fileName}

\* C40: with no load in progress, isLargeFile holds exactly when fileHandle is
\* set, fileContent is non-empty only in buffered mode, and what a search would
\* scan is the content of the file named by fileName
C40_TargetConsistent ==
    upload = Null =>
        /\ isLargeFile <=> fileHandle # Null
        /\ fileContent # <<>> => ~isLargeFile
        /\ HasTarget =>
              \E f \in Named :
                  IF isLargeFile /\ fileHandle # Null
                  THEN fileHandle = Some(f.bytes)
                  ELSE fileContent = text(f.bytes)

\* ------------------------------------------------------------------------
\* C35, C39: the context window of a large file
\* ------------------------------------------------------------------------

\* a call of loadContextLines has run to its end and assigned the context
ContextLoaded == shown # Null

\* the first and the last line of the window of a target line in a file
FirstShown(t) == Max(1, t - beforeLines)
LastShown(t, bytes) == Min(countLinesInFile(bytes), t + afterLines)

\* C35: a completed loadContextLines(t) sets contextStartLine to max(1, t - 3)
\* and contextLines to the lines max(1, t - 3) .. min(totalLines, t + 50) of the
\* file's text, whatever the chunking and the end of the file, and it stops
\* reading as soon as it has counted a line after the window
C35_ContextWindow ==
    ContextLoaded =>
        LET fr == shown[1]
            first == FirstShown(fr.target)
            last == LastShown(fr.target, fr.bytes)
        IN  /\ contextStartLine = first
            /\ contextLines = SubSeq(split(text(fr.bytes)), first, last)
            /\ fr.returned => fr.currentLine = last + 1
            /\ ~fr.returned => Newlines(fr.bytes) <= last

\* a line is selected, every call of loadContextLines has run to its end, none
\* has failed, and a context is shown
ContextSettled ==
    loads = <<>> /\ alerted = Null /\ selectedLine # Null /\ ContextLoaded

\* C39: once every overlapping call of loadContextLines has finished, the
\* context shown holds the line selected last
C39_ContextHoldsSelectedLine ==
    ContextSettled =>
        /\ contextStartLine <= selectedLine[1]
        /\ selectedLine[1] <= contextStartLine + Len(contextLines) - 1

====
